---------------------------- MODULE Spec2Model ----------------------------
(***************************************************************************)
(* Coaching-institute backend (express + mongoose): the batch registry,    *)
(* the batch-scoped record stores and the authorization checks of          *)
(* routes/admin.js and routes/user.js, as a state machine over the         *)
(* document collections AdminUser, User, Batch and Attendance.             *)
(*                                                                         *)
(* Every route handler is one action.  A handler's HTTP status and the     *)
(* part of its response body the properties speak about are recorded in    *)
(* the variable last, together with the request that produced them.        *)
(***************************************************************************)
EXTENDS Integers, Sequences, FiniteSets, TLC

\* ------------------------------------------------------------------ bounds
MaxBatches == 2
MaxCodeLen == 2
MaxIds == 2
MaxAttendance == 4
MaxInFlight == 2
MaxUsers == 5

\* ------------------------------------------------------------ HTTP statuses
OK == 200
Created == 201
BadRequest == 400
Unauthorized == 401
Forbidden == 403
NotFound == 404
Conflict == 409
ServerError == 500

\* --------------------------------------------------------------- the state
VARIABLES
    adminUsers,   \* AdminUser collection: the set of teacher ids
    users,        \* User collection: sequence of accounts, _id = index
    batches,      \* Batch collection: function _id -> document
    nextBatchId,  \* the next Batch _id to hand out
    attendance,   \* Attendance collection: function _id -> document
    nextAttId,    \* the next Attendance _id to hand out
    pending,      \* mark-attendance requests between their findOne and create
    last          \* the last request served and its response

vars == <<adminUsers, users, batches, nextBatchId, attendance, nextAttId, pending, last>>

\* ------------------------------------------------------------ value spaces
Undefined == "undefined"

\* Teacher ids as they arrive in a request: two registered teachers and an id
\* that resolves to no AdminUser.
TeacherIds == {"t1", "t2"}
TeacherIdInputs == TeacherIds \cup {"tx"}

\* Bearer values the user routes decode with jwt.verify: a user id, or a token
\* that does not verify.
InvalidToken == 0
NoAuthHeader == -1

\* An id that is no 24-digit hex string; every other id of the model is one.
MalformedId == 0

\* mongoose.Types.ObjectId.isValid(id)
isValid(id) == id # MalformedId

\* A request that carries no studentId.
NoStudentId == -1

\* Characters of a batch code, in both cases.
Chars == {"a", "A", "b"}

UpperChar(c) ==
    CASE c = "a" -> "A"
      [] c = "b" -> "B"
      [] OTHER -> c

LowerChar(c) ==
    CASE c = "A" -> "a"
      [] c = "B" -> "b"
      [] OTHER -> c

toUpperCaseIdentity(s) == s

\* String.prototype.toUpperCase on a code, character by character.
toUpperCase(s) == [i \in 1..Len(s) |-> UpperChar(s[i])]

SeqsUpTo(S, n) == UNION {[1..k -> S] : k \in 0..n}

CodeInputs == SeqsUpTo(Chars, MaxCodeLen)

\* ----------------------------------------------------------- array helpers
\* Array.prototype.includes / MongooseArray#includes
includes(arr, x) == \E i \in DOMAIN arr : arr[i] = x

\* Array.prototype.findIndex, 1-based; 0 stands for -1.
findIndex(arr, P(_)) ==
    IF \E i \in DOMAIN arr : P(arr[i])
    THEN CHOOSE i \in DOMAIN arr : P(arr[i]) /\ \A j \in 1..(i - 1) : ~P(arr[j])
    ELSE 0

\* Array.prototype.find on an array of {student_id, ...}: the index of the first
\* element of that student
findFirst(arr, studentId) ==
    CHOOSE i \in DOMAIN arr :
        /\ arr[i].student_id = studentId
        /\ \A j \in 1..(i - 1) : arr[j].student_id # studentId

\* Array.prototype.filter
filter(arr, P(_)) == SelectSeq(arr, P)

\* Array.prototype.splice(index, 1)
splice1(arr, i) == SubSeq(arr, 1, i - 1) \o SubSeq(arr, i + 1, Len(arr))

Range(arr) == {arr[i] : i \in DOMAIN arr}

NoDuplicates(arr) == \A i, j \in DOMAIN arr : arr[i] = arr[j] => i = j

\* --------------------------------------------------------------- documents
Days == {"monday", "tuesday", "wednesday", "thursday", "friday", "saturday"}

\* Batch.create({batch_code, name, class, teacher_id, students: []}): the
\* embedded arrays default to empty.
NewBatch(code, name, class, teacher) ==
    [batch_code |-> code, name |-> name, class |-> class, teacher_id |-> teacher,
     students |-> <<>>, feesPayments |-> <<>>, announcements |-> <<>>,
     timetable |-> [d \in Days |-> <<>>], testResults |-> <<>>]

Response(op, status, in, out) == [op |-> op, status |-> status, in |-> in, out |-> out]

NoResponse == Response("none", 0, <<>>, <<>>)

\* Accounts registered before the batch-scoped operations start: two students,
\* a parent linked to the first student, and a parent whose student was
\* re-linked to another parent.
Account(role, email, parentEmail) == [role |-> role, email |-> email, parentEmail |-> parentEmail]

RegisteredUsers ==
    << Account("student", "s1@x", "p1@x"),
       Account("student", "s2@x", Undefined),
       Account("parent", "p1@x", Undefined) >>

\* User.findById
UserExists(id) == id \in DOMAIN users

IsStudent(id) == UserExists(id) /\ users[id].role = "student"

Init ==
    /\ adminUsers = TeacherIds
    /\ users = RegisteredUsers
    /\ batches = <<>>
    /\ nextBatchId = 1
    /\ attendance = <<>>
    /\ nextAttId = 1
    /\ pending = <<>>
    /\ last = NoResponse

\* Batch.findOne({batch_code})
BatchesWithCode(code) == {b \in DOMAIN batches : batches[b].batch_code = code}

Put(f, k, v) == [x \in DOMAIN f \cup {k} |-> IF x = k THEN v ELSE f[x]]

Remove(f, k) == [x \in DOMAIN f \ {k} |-> f[x]]

\* ------------------------------------------------------- POST /admin/batches
CreateBatch(code, name, class, teacher_id) ==
    LET in == [batch_code |-> code, teacher_id |-> teacher_id]
        canonical == toUpperCase(code)
    IN
    /\ IF code = <<>>
       THEN \* batchSchema.parse throws; the catch answers 500
            /\ last' = Response("createBatch", ServerError, in, <<>>)
            /\ UNCHANGED <<batches, nextBatchId>>
       ELSE IF teacher_id \notin adminUsers
       THEN /\ last' = Response("createBatch", NotFound, in, <<>>)
            /\ UNCHANGED <<batches, nextBatchId>>
       ELSE IF BatchesWithCode(canonical) # {}
       THEN /\ last' = Response("createBatch", Conflict, in, <<>>)
            /\ UNCHANGED <<batches, nextBatchId>>
       ELSE /\ nextBatchId <= MaxBatches
            /\ batches' = Put(batches, nextBatchId, NewBatch(canonical, name, class, teacher_id))
            /\ nextBatchId' = nextBatchId + 1
            /\ last' = Response("createBatch", Created, in, nextBatchId)
    /\ UNCHANGED <<adminUsers, users, attendance, nextAttId, pending>>

\* ------------------------------------- POST /admin/batches/:batchId/students
\* User.find({_id: {$in: studentIds}, role: 'student'}): the matching accounts,
\* each once.
FindStudents(items) == {u \in Range(items) : IsStudent(u)}

AllStudentsFoundNoCheck(items) == TRUE

\* students.length !== studentIds.length
AllStudentsFound(items) == Cardinality(FindStudents(items)) = Len(items)

\* studentIds.filter(id => !batch.students.includes(id))
NewStudentIds(students, items) == filter(items, LAMBDA id : ~includes(students, id))

AddStudents(batchId, studentIds) ==
    LET in == [batchId |-> batchId, studentIds |-> studentIds]
        items == studentIds.items
    IN
    /\ IF ~studentIds.array \/ Len(items) = 0
       THEN /\ last' = Response("addStudents", BadRequest, in, <<>>)
            /\ UNCHANGED batches
       ELSE IF batchId \notin DOMAIN batches
       THEN /\ last' = Response("addStudents", NotFound, in, <<>>)
            /\ UNCHANGED batches
       ELSE IF ~AllStudentsFound(items)
       THEN /\ last' = Response("addStudents", BadRequest, in, <<>>)
            /\ UNCHANGED batches
       ELSE /\ batches' = [batches EXCEPT ![batchId].students =
                               @ \o NewStudentIds(@, items)]
            /\ last' = Response("addStudents", OK, in, batches'[batchId].students)
    /\ UNCHANGED <<adminUsers, users, nextBatchId, attendance, nextAttId, pending>>

\* ------------------------------------------------- POST /user/join-batch
JoinAlways(students, id) == FALSE

\* batch.students.includes(student._id)
AlreadyEnrolled(students, id) == includes(students, id)

JoinBatch(authHeader, batch_code) ==
    LET in == [token |-> authHeader, batch_code |-> batch_code]
        found == BatchesWithCode(toUpperCase(batch_code))
    IN
    /\ IF batch_code = <<>> \/ authHeader = NoAuthHeader
       THEN /\ last' = Response("joinBatch", BadRequest, in, <<>>)
            /\ UNCHANGED batches
       ELSE IF authHeader = InvalidToken
       THEN \* jwt.verify throws JsonWebTokenError
            /\ last' = Response("joinBatch", Unauthorized, in, <<>>)
            /\ UNCHANGED batches
       ELSE IF ~IsStudent(authHeader)
       THEN /\ last' = Response("joinBatch", Forbidden, in, <<>>)
            /\ UNCHANGED batches
       ELSE IF found = {}
       THEN /\ last' = Response("joinBatch", NotFound, in, <<>>)
            /\ UNCHANGED batches
       ELSE LET b == CHOOSE x \in found : TRUE IN
            IF AlreadyEnrolled(batches[b].students, authHeader)
            THEN /\ last' = Response("joinBatch", Conflict, in, b)
                 /\ UNCHANGED batches
            ELSE /\ batches' = [batches EXCEPT ![b].students = Append(@, authHeader)]
                 /\ last' = Response("joinBatch", OK, in, b)
    /\ UNCHANGED <<adminUsers, users, nextBatchId, attendance, nextAttId, pending>>

\* ------------------------ DELETE /admin/batches/:batchId/students/:studentId
RemoveStudent(teacherId, batchId, studentId) ==
    LET in == [teacherId |-> teacherId, batchId |-> batchId, studentId |-> studentId]
    IN
    /\ IF teacherId \notin adminUsers
       THEN /\ last' = Response("removeStudent", Unauthorized, in, <<>>)
            /\ UNCHANGED batches
       ELSE IF batchId \notin DOMAIN batches
       THEN /\ last' = Response("removeStudent", NotFound, in, <<>>)
            /\ UNCHANGED batches
       ELSE IF batches[batchId].teacher_id # teacherId
       THEN /\ last' = Response("removeStudent", Forbidden, in, <<>>)
            /\ UNCHANGED batches
       ELSE IF ~includes(batches[batchId].students, studentId)
       THEN /\ last' = Response("removeStudent", NotFound, in, <<>>)
            /\ UNCHANGED batches
       ELSE /\ batches' = [batches EXCEPT ![batchId].students =
                               filter(@, LAMBDA id : id # studentId)]
            /\ last' = Response("removeStudent", OK, in, <<>>)
    /\ UNCHANGED <<adminUsers, users, nextBatchId, attendance, nextAttId, pending>>

\* =============================================================== attendance
\* The date strings of the requests and the instant new Date(date) gives for
\* each: a date-only ISO string and the same day written as a UTC midnight
\* timestamp are one instant.
DateInputs == {"2024-01-01", "2024-01-01T00:00:00.000Z", "2024-01-02", "2024-01-03", "2024-01-04"}

NewDate(date) ==
    CASE date = "2024-01-01" -> 1
      [] date = "2024-01-01T00:00:00.000Z" -> 1
      [] date = "2024-01-02" -> 2
      [] date = "2024-01-03" -> 3
      [] date = "2024-01-04" -> 4

\* One element of an Attendance document's records array.
Entry(student_id, status) == [student_id |-> student_id, status |-> status]

FindNoAttendance(batchId, date) == {}

\* Attendance.findOne({batch_id: batchId, date: new Date(date)})
FindAttendance(batchId, date) ==
    {a \in DOMAIN attendance :
        attendance[a].batch_id = batchId /\ attendance[a].date = date}

\* Attendance.create({batch_id, date, records, marked_by})
NewAttendance(batchId, date, records, teacherId) ==
    [batch_id |-> batchId, date |-> date, records |-> records, marked_by |-> teacherId]

\* -------------------------------- POST /admin/batches/:batchId/attendance
MarkAttendance(teacherId, batchId, date, records) ==
    LET in == [teacherId |-> teacherId, batchId |-> batchId, date |-> date, records |-> records]
    IN
    /\ IF teacherId \notin adminUsers
       THEN /\ last' = Response("markAttendance", Unauthorized, in, <<>>)
            /\ UNCHANGED <<attendance, nextAttId>>
       ELSE IF FindAttendance(batchId, NewDate(date)) # {}
       THEN /\ last' = Response("markAttendance", BadRequest, in, <<>>)
            /\ UNCHANGED <<attendance, nextAttId>>
       ELSE /\ nextAttId <= MaxAttendance
            /\ attendance' = Put(attendance, nextAttId,
                                 NewAttendance(batchId, NewDate(date), records, teacherId))
            /\ nextAttId' = nextAttId + 1
            /\ last' = Response("markAttendance", Created, in, nextAttId)
    /\ UNCHANGED <<adminUsers, users, batches, nextBatchId, pending>>

\* The same handler as the two database calls it awaits, for requests served
\* concurrently.  First step: the teacher lookup and Attendance.findOne.
MarkFind(teacherId, batchId, date, records) ==
    LET in == [teacherId |-> teacherId, batchId |-> batchId, date |-> date, records |-> records]
    IN
    /\ IF teacherId \notin adminUsers
       THEN /\ last' = Response("markAttendance", Unauthorized, in, <<>>)
            /\ UNCHANGED pending
       ELSE IF FindAttendance(batchId, NewDate(date)) # {}
       THEN /\ last' = Response("markAttendance", BadRequest, in, <<>>)
            /\ UNCHANGED pending
       ELSE /\ Len(pending) < MaxInFlight
            /\ pending' = Append(pending, in)
            /\ UNCHANGED last
    /\ UNCHANGED <<adminUsers, users, batches, nextBatchId, attendance, nextAttId>>

\* Second step: Attendance.create, for a request whose findOne found nothing.
MarkCreate(i) ==
    /\ i \in DOMAIN pending
    /\ nextAttId <= MaxAttendance
    /\ LET in == pending[i] IN
       /\ attendance' = Put(attendance, nextAttId,
                            NewAttendance(in.batchId, NewDate(in.date), in.records, in.teacherId))
       /\ last' = Response("markAttendance", Created, in, nextAttId)
    /\ nextAttId' = nextAttId + 1
    /\ pending' = splice1(pending, i)
    /\ UNCHANGED <<adminUsers, users, batches, nextBatchId>>

\* ------------------- PUT /admin/batches/:batchId/attendance/:attendanceId
BelongsAlways(doc, batchId) == TRUE

\* attendance.batch_id.toString() !== batchId
BelongsToBatch(doc, batchId) == doc.batch_id = batchId

UpdateAttendance(teacherId, batchId, attendanceId, records) ==
    LET in == [teacherId |-> teacherId, batchId |-> batchId,
               attendanceId |-> attendanceId, records |-> records]
    IN
    /\ IF teacherId \notin adminUsers
       THEN /\ last' = Response("updateAttendance", Unauthorized, in, <<>>)
            /\ UNCHANGED attendance
       ELSE IF batchId \notin DOMAIN batches
       THEN /\ last' = Response("updateAttendance", NotFound, in, <<>>)
            /\ UNCHANGED attendance
       ELSE IF batches[batchId].teacher_id # teacherId
       THEN /\ last' = Response("updateAttendance", Forbidden, in, <<>>)
            /\ UNCHANGED attendance
       ELSE IF attendanceId \notin DOMAIN attendance
       THEN /\ last' = Response("updateAttendance", NotFound, in, <<>>)
            /\ UNCHANGED attendance
       ELSE IF ~BelongsToBatch(attendance[attendanceId], batchId)
       THEN /\ last' = Response("updateAttendance", BadRequest, in, <<>>)
            /\ UNCHANGED attendance
       ELSE /\ attendance' = IF records.array
                             THEN [attendance EXCEPT ![attendanceId].records = records.items]
                             ELSE attendance
            /\ last' = Response("updateAttendance", OK, in, attendance'[attendanceId])
    /\ UNCHANGED <<adminUsers, users, batches, nextBatchId, nextAttId, pending>>

\* ------------------------------------------------ per-student attendance
\* The optional startDate/endDate of a query, already converted by new Date.
NoRange == [set |-> FALSE, lo |-> 0, hi |-> 0]

DateRange(lo, hi) == [set |-> TRUE, lo |-> lo, hi |-> hi]

\* query.date = {$gte: new Date(startDate), $lte: new Date(endDate)}
InRange(date, range) == range.set => (range.lo <= date /\ date <= range.hi)

HasStudent(doc, studentId) == \E i \in DOMAIN doc.records : doc.records[i].student_id = studentId

\* .sort({date: -1}) over the documents a query matched
RECURSIVE SortByDateDesc(_)
SortByDateDesc(ids) ==
    IF ids = {} THEN <<>>
    ELSE LET first == CHOOSE a \in ids :
                         \A o \in ids : \/ attendance[a].date > attendance[o].date
                                        \/ attendance[a].date = attendance[o].date /\ a <= o
         IN <<first>> \o SortByDateDesc(ids \ {first})

\* record.records.find(r => r.student_id.toString() === studentId)
StudentRecord(doc, studentId) ==
    doc.records[findFirst(doc.records, studentId)]

FormatRecord(doc, studentId) ==
    [date |-> doc.date, status |-> StudentRecord(doc, studentId).status]

\* Attendance.find({batch_id, 'records.student_id': studentId, date?})
\*   .sort({date: -1}), each document mapped to the student's own row
StudentRows(batchId, studentId, range) ==
    LET ids == {a \in DOMAIN attendance :
                   /\ attendance[a].batch_id = batchId
                   /\ HasStudent(attendance[a], studentId)
                   /\ InRange(attendance[a].date, range)}
        sorted == SortByDateDesc(ids)
    IN [i \in DOMAIN sorted |-> FormatRecord(attendance[sorted[i]], studentId)]

\* Attendance.find({batch_id, date?}).sort({date: -1}), mapped to the student's
\* row or null, then .filter(Boolean)
StudentRowsFiltered(batchId, userId, range) ==
    LET ids == {a \in DOMAIN attendance :
                   /\ attendance[a].batch_id = batchId
                   /\ InRange(attendance[a].date, range)}
        sorted == SortByDateDesc(ids)
        kept == filter(sorted, LAMBDA a : HasStudent(attendance[a], userId))
    IN [i \in DOMAIN kept |-> FormatRecord(attendance[kept[i]], userId)]

MathTrunc(n, d) == n \div d

\* Math.round of the quotient n/d of two non-negative integers
MathRound(n, d) == (2 * n + d) \div (2 * d)

PercentageTruncated(present, totalClasses) ==
    IF totalClasses > 0 THEN MathTrunc(present * 10000, totalClasses) ELSE 0

\* Math.round(attendancePercentage * 100) / 100 with attendancePercentage =
\* totalClasses > 0 ? (present / totalClasses) * 100 : 0, in hundredths of a
\* percent (7500 is 75.00)
Percentage(present, totalClasses) ==
    IF totalClasses > 0 THEN MathRound(present * 10000, totalClasses) ELSE 0

Statistics(rows) ==
    LET totalClasses == Len(rows)
        present == Len(filter(rows, LAMBDA r : r.status = "present"))
        absent == totalClasses - present
    IN [totalClasses |-> totalClasses, present |-> present, absent |-> absent,
        attendancePercentage |-> Percentage(present, totalClasses)]

AttendanceBody(rows) == [records |-> rows, statistics |-> Statistics(rows)]

ReadFrame == UNCHANGED <<adminUsers, users, batches, nextBatchId, attendance, nextAttId, pending>>

\* GET /admin/batches/:batchId/student-attendance/:studentId
TeacherStudentAttendance(teacherId, batchId, studentId, range) ==
    LET in == [caller |-> teacherId, batchId |-> batchId, studentId |-> studentId, range |-> range]
    IN
    /\ IF teacherId \notin adminUsers
       THEN last' = Response("teacherStudentAttendance", Unauthorized, in, <<>>)
       ELSE last' = Response("teacherStudentAttendance", OK, in,
                             AttendanceBody(StudentRows(batchId, studentId, range)))
    /\ ReadFrame

\* GET /user/student/batches/:batchId/attendance?userId=
StudentAttendance(authHeader, batchId, userId, range) ==
    LET in == [caller |-> authHeader, batchId |-> batchId, studentId |-> userId, range |-> range]
    IN
    /\ IF authHeader = NoAuthHeader
       THEN last' = Response("studentAttendance", Unauthorized, in, <<>>)
       ELSE IF authHeader = InvalidToken
       THEN \* jwt.verify throws; the handler's catch answers 500
            last' = Response("studentAttendance", ServerError, in, <<>>)
       ELSE IF ~isValid(batchId)
       THEN \* Attendance.find(query) throws CastError
            last' = Response("studentAttendance", ServerError, in, <<>>)
       ELSE last' = Response("studentAttendance", OK, in,
                             AttendanceBody(StudentRowsFiltered(batchId, userId, range)))
    /\ ReadFrame

IsParent(id) == UserExists(id) /\ users[id].role = "parent"

LinkedAlways(parentId, studentId) == UserExists(studentId)

\* !student || student.parentEmail !== parent.email, negated
ParentLinked(parentId, studentId) ==
    UserExists(studentId) /\ users[studentId].parentEmail = users[parentId].email

\* GET /user/parent/batches/:batchId/student-attendance/:studentId
ParentStudentAttendance(authHeader, batchId, studentId, range) ==
    LET in == [caller |-> authHeader, batchId |-> batchId, studentId |-> studentId, range |-> range]
    IN
    /\ IF authHeader = NoAuthHeader
       THEN last' = Response("parentStudentAttendance", Unauthorized, in, <<>>)
       ELSE IF authHeader = InvalidToken
       THEN last' = Response("parentStudentAttendance", ServerError, in, <<>>)
       ELSE IF ~isValid(studentId)
       THEN \* User.findById(studentId) throws CastError
            last' = Response("parentStudentAttendance", ServerError, in, <<>>)
       ELSE IF ~IsParent(authHeader)
       THEN last' = Response("parentStudentAttendance", Forbidden, in, <<>>)
       ELSE IF ~ParentLinked(authHeader, studentId)
       THEN last' = Response("parentStudentAttendance", Forbidden, in, <<>>)
       ELSE IF ~isValid(batchId)
       THEN \* Attendance.find(query) throws CastError
            last' = Response("parentStudentAttendance", ServerError, in, <<>>)
       ELSE last' = Response("parentStudentAttendance", OK, in,
                             AttendanceBody(StudentRows(batchId, studentId, range)))
    /\ ReadFrame

\* ------------------------------------------------------------ request inputs
BatchIdInputs == 1..(MaxBatches + 1)

\* The registered accounts; the parent (3) stands for every id that is no student.
UserIdInputs == 1..Len(RegisteredUsers)

\* A token may also carry the id of an account that does not exist.
TokenInputs == UserIdInputs \cup {Len(RegisteredUsers) + 1, InvalidToken, NoAuthHeader}

StudentIdLists ==
    {[array |-> TRUE, items |-> s] : s \in SeqsUpTo(UserIdInputs, MaxIds)}
        \cup {[array |-> FALSE, items |-> <<>>]}

\* ------------------------------------------------ batch registry behaviours
\* Creating batches, with codes in every mix of cases.
NextRegistry ==
    \E code \in CodeInputs, t \in TeacherIdInputs : CreateBatch(code, "n1", "c1", t)

SpecRegistry == Init /\ [][NextRegistry]_vars

\* Enrolment: bulk-add, join by code, remove, on batches with one-letter codes.
NextEnrol ==
    \/ \E code \in SeqsUpTo(Chars, 1) : CreateBatch(code, "n1", "c1", "t1")
    \/ \E b \in BatchIdInputs, ids \in StudentIdLists : AddStudents(b, ids)
    \/ \E tok \in TokenInputs, code \in SeqsUpTo(Chars, 1) : JoinBatch(tok, code)
    \/ \E t \in TeacherIdInputs, b \in BatchIdInputs, s \in UserIdInputs :
            RemoveStudent(t, b, s)

SpecEnrol == Init /\ [][NextEnrol]_vars

\* ======================================================= properties: batches
\* Two codes are equal when compared case-insensitively.
SameIgnoringCase(x, y) ==
    /\ Len(x) = Len(y)
    /\ \A i \in 1..Len(x) : LowerChar(x[i]) = LowerChar(y[i])

IsUpperCase(code) == \A i \in DOMAIN code : code[i] \notin {"a", "b"}

StoredCodesUpperAndUnique ==
    /\ \A b \in DOMAIN batches : IsUpperCase(batches[b].batch_code)
    /\ \A b1, b2 \in DOMAIN batches :
           batches[b1].batch_code = batches[b2].batch_code => b1 = b2

DuplicateCodeRejected ==
    (/\ last'.op = "createBatch"
     /\ \E b \in DOMAIN batches :
            SameIgnoringCase(batches[b].batch_code, last'.in.batch_code))
    => /\ batches' = batches
       /\ last'.status # Created
       /\ last'.in.teacher_id \in adminUsers => last'.status = Conflict

\* C1: every stored batch has an all-uppercase batch_code and no two batches
\* share a batch_code; a createBatch whose code equals an existing batch's code
\* compared case-insensitively creates no batch and fails, with Conflict (409)
\* once the teacher_id of the request has resolved (an unknown teacher_id is
\* answered 404 before the code is looked up).
C1_UppercaseUniqueCodes == []StoredCodesUpperAndUnique /\ [][DuplicateCodeRejected]_vars

\* A second batch exists and a code differing only in case from a stored one
\* was refused with 409.
C1_Witness ==
    /\ Cardinality(DOMAIN batches) = 2
    /\ last.op = "createBatch"
    /\ last.status = Conflict
    /\ \A b \in DOMAIN batches : batches[b].batch_code # last.in.batch_code
    /\ \E b \in DOMAIN batches : SameIgnoringCase(batches[b].batch_code, last.in.batch_code)

\* ===================================================== properties: enrolment
StudentsNoDuplicates == \A b \in DOMAIN batches : NoDuplicates(batches[b].students)

\* A bulk-add request naming an existing batch and only ids of student accounts.
ValidBulkAdd ==
    /\ last'.op = "addStudents"
    /\ last'.in.batchId \in DOMAIN batches
    /\ last'.in.studentIds.array
    /\ Len(last'.in.studentIds.items) > 0
    /\ \A i \in DOMAIN last'.in.studentIds.items : IsStudent(last'.in.studentIds.items[i])

BulkAddAdmits ==
    ValidBulkAdd =>
        LET b == last'.in.batchId
            items == last'.in.studentIds.items
        IN /\ last'.status = OK
           /\ Range(batches'[b].students) = Range(batches[b].students) \cup Range(items)
           /\ NoDuplicates(batches'[b].students)

\* C6: bulk-add of a list of valid student ids succeeds even when some or all
\* are already enrolled, and afterwards batch.students is the previous members
\* plus the not-yet-enrolled ids, each student once; batch.students never holds
\* a duplicate after bulk-add, join-by-code and remove-student calls.
C6_BulkAddValidIdsSucceeds == []StudentsNoDuplicates /\ [][BulkAddAdmits]_vars

\* The part of C6 the code does satisfy: the same with the ids of the list
\* pairwise distinct.
C6_DistinctIdsAdmitted ==
    /\ []StudentsNoDuplicates
    /\ [][(ValidBulkAdd /\ NoDuplicates(last'.in.studentIds.items)) =>
             LET b == last'.in.batchId
                 items == last'.in.studentIds.items
             IN /\ last'.status = OK
                /\ Range(batches'[b].students) = Range(batches[b].students) \cup Range(items)
                /\ NoDuplicates(batches'[b].students)]_vars

JoinRefusals ==
    last'.op = "joinBatch" =>
        LET tok == last'.in.token
            code == last'.in.batch_code
            verified == tok \notin {InvalidToken, NoAuthHeader}
            matching == {b \in DOMAIN batches : SameIgnoringCase(batches[b].batch_code, code)}
        IN /\ (verified /\ \E b \in matching : includes(batches[b].students, tok))
                => last'.status = Conflict /\ batches' = batches
           /\ (verified /\ ~IsStudent(tok))
                => /\ last'.status # OK
                   /\ batches' = batches
                   /\ code # <<>> => last'.status = Forbidden
           /\ (matching = {})
                => /\ last'.status # OK
                   /\ batches' = batches
                   /\ (code # <<>> /\ verified /\ IsStudent(tok)) => last'.status = NotFound

\* C7: join-by-code by a student already in batch.students fails with Conflict
\* (409) and leaves batch.students unchanged; a join by a caller whose account
\* is not a student fails and changes no batch, with Forbidden (403) whenever a
\* batch code was sent; a join with a code matching no batch fails and changes no
\* batch, with NotFound (404) whenever the caller is a student.
C7_JoinRefusals == [][JoinRefusals]_vars

\* An enrolled student joined again, in another case of the code, and got 409.
C7_Witness ==
    /\ last.op = "joinBatch"
    /\ last.status = Conflict
    /\ \E b \in DOMAIN batches :
          /\ batches[b].batch_code # last.in.batch_code
          /\ includes(batches[b].students, last.in.token)
          /\ Len(batches[b].students) = 2

\* ================================================== attendance behaviours
RecordLists ==
    { <<Entry(1, "present")>>,
      <<Entry(1, "absent"), Entry(2, "present")>> }

RecordsInputs ==
    {[array |-> TRUE, items |-> r] : r \in RecordLists} \cup {[array |-> FALSE, items |-> <<>>]}

\* Marking and updating attendance, one request at a time, for two batch ids and
\* one day written in two ways.
NextAttendance ==
    \/ \E code \in {<<"a">>, <<"b">>}, t \in TeacherIds : CreateBatch(code, "n1", "c1", t)
    \/ \E t \in {"t1", "tx"}, b \in 1..2, r \in RecordLists,
          d \in {"2024-01-01", "2024-01-01T00:00:00.000Z"} : MarkAttendance(t, b, d, r)
    \/ \E t \in TeacherIdInputs, b \in BatchIdInputs, a \in 1..3, r \in RecordsInputs :
          UpdateAttendance(t, b, a, r)

SpecAttendance == Init /\ [][NextAttendance]_vars

\* Mark-attendance requests served concurrently: each is its findOne step and,
\* later, its create step.
NextMarkRace ==
    \/ \E t \in {"t1", "tx"}, b \in 1..2,
          d \in {"2024-01-01", "2024-01-01T00:00:00.000Z", "2024-01-02"} :
          MarkFind(t, b, d, <<Entry(1, "present")>>)
    \/ \E i \in 1..MaxInFlight : MarkCreate(i)

SpecMarkRace == Init /\ [][NextMarkRace]_vars

\* Per-student attendance queries over the records of one batch.
RangeInputs == {NoRange, DateRange(2, 3)}

NextStats ==
    \/ \E d \in DateInputs, r \in RecordLists : MarkAttendance("t1", 1, d, r)
    \/ \E t \in {"t1", "tx"}, b \in 1..2, s \in 1..2, rg \in RangeInputs :
          TeacherStudentAttendance(t, b, s, rg)
    \/ \E tok \in {1, InvalidToken, NoAuthHeader}, b \in 1..2, rg \in RangeInputs :
          StudentAttendance(tok, b, 1, rg)
    \/ \E tok \in {3, 1, InvalidToken, NoAuthHeader}, b \in 1..2, s \in 1..2, rg \in RangeInputs :
          ParentStudentAttendance(tok, b, s, rg)

SpecStats == Init /\ [][NextStats]_vars

\* ==================================================== properties: attendance
RecordsOfPair(batchId, date) ==
    {a \in DOMAIN attendance : attendance[a].batch_id = batchId /\ attendance[a].date = date}

NoUpsertOnMark ==
    (/\ last'.op = "markAttendance"
     /\ RecordsOfPair(last'.in.batchId, NewDate(last'.in.date)) # {})
    => /\ last'.status \notin {OK, Created}
       /\ attendance' = attendance

\* C2: when an AttendanceRecord exists for a (batchId, date) pair, a
\* mark-attendance call for the same pair fails and leaves that record and the
\* set of AttendanceRecords unchanged.
C2_MarkTwiceFails == [][NoUpsertOnMark]_vars

\* The day was marked for two batches and a further mark of one pair, by a
\* registered teacher, was refused.
C2_Witness ==
    /\ last.op = "markAttendance"
    /\ last.status = BadRequest
    /\ last.in.teacherId \in adminUsers
    /\ Cardinality(DOMAIN attendance) = 2
    /\ RecordsOfPair(last.in.batchId, NewDate(last.in.date)) # {}

\* C3: in every reachable state, also when the findOne and create steps of
\* concurrent mark-attendance requests interleave, there is at most one
\* AttendanceRecord per (batch_id, date).
C3_OneRecordPerBatchDate ==
    \A a1, a2 \in DOMAIN attendance :
        (attendance[a1].batch_id = attendance[a2].batch_id
            /\ attendance[a1].date = attendance[a2].date) => a1 = a2

UpdateChecksBatch ==
    (/\ last'.op = "updateAttendance"
     /\ last'.in.batchId \in DOMAIN batches
     /\ batches[last'.in.batchId].teacher_id = last'.in.teacherId
     /\ last'.in.teacherId \in adminUsers
     /\ last'.in.attendanceId \in DOMAIN attendance)
    => LET a == last'.in.attendanceId
           old == attendance[a]
       IN /\ old.batch_id # last'.in.batchId
               => last'.status = BadRequest /\ attendance' = attendance
          /\ (old.batch_id = last'.in.batchId /\ last'.in.records.array)
               => /\ last'.status = OK
                  /\ attendance' = [attendance EXCEPT ![a] =
                        [batch_id |-> old.batch_id, date |-> old.date,
                         records |-> last'.in.records.items, marked_by |-> old.marked_by]]

\* C4: an attendance update by the owning teacher naming a record whose batch_id
\* differs from the batchId of the request fails with BadRequest (400) and leaves
\* the record unchanged; when batch_id matches and records is a list, the record's
\* records list becomes the supplied list and its batch_id, date and marked_by
\* stay as they were.
C4_UpdateRequiresSameBatch == [][UpdateChecksBatch]_vars

\* The owner of a batch named a record of the other batch and got 400.
C4_Witness ==
    /\ last.op = "updateAttendance"
    /\ last.status = BadRequest
    /\ last.in.batchId \in DOMAIN batches
    /\ last.in.attendanceId \in DOMAIN attendance
    /\ attendance[last.in.attendanceId].batch_id \in DOMAIN batches \ {last.in.batchId}

\* The documents a per-student query is about, counted without the handler's
\* arrays.
MatchingDocs(in) ==
    {a \in DOMAIN attendance :
        /\ attendance[a].batch_id = in.batchId
        /\ \E i \in DOMAIN attendance[a].records :
               attendance[a].records[i].student_id = in.studentId
        /\ in.range.set => (attendance[a].date \in in.range.lo..in.range.hi)}

IsStudentQuery ==
    /\ last.op \in {"teacherStudentAttendance", "studentAttendance", "parentStudentAttendance"}
    /\ last.status = OK

\* C5: for every per-student attendance query (teacher, student, parent):
\* totalClasses is the number of rows returned for the student, one per matching
\* record; present + absent = totalClasses; attendancePercentage is 0 when
\* totalClasses is 0 and otherwise present/totalClasses*100 rounded to two
\* decimals (3 present of 4 gives 75.00).
C5_AttendanceStatistics ==
    IsStudentQuery =>
        LET rows == last.out.records
            st == last.out.statistics
            presentRows == {i \in DOMAIN rows : rows[i].status = "present"}
        IN /\ st.totalClasses = Len(rows)
           /\ st.totalClasses = Cardinality(MatchingDocs(last.in))
           /\ st.present = Cardinality(presentRows)
           /\ st.present + st.absent = st.totalClasses
           /\ st.totalClasses = 0 => st.attendancePercentage = 0
           /\ st.totalClasses > 0 =>
                \* the nearest hundredth of a percent to present/totalClasses*100
                /\ 2 * (st.attendancePercentage * st.totalClasses - st.present * 10000)
                       <= st.totalClasses
                /\ 2 * (st.present * 10000 - st.attendancePercentage * st.totalClasses)
                       <= st.totalClasses
           /\ (st.present = 3 /\ st.totalClasses = 4) => st.attendancePercentage = 7500

\* A parent's query answered with 3 present of 4 classes.
C5_Witness ==
    /\ last.op = "parentStudentAttendance"
    /\ last.status = OK
    /\ last.out.statistics.totalClasses = 4
    /\ last.out.statistics.present = 3
    /\ last.out.statistics.attendancePercentage = 7500

\* ================================================================ timetable
\* The :day values of the requests and what day.toLowerCase() gives for each.
DayInputs == {"monday", "Monday", "Tuesday", "sunday"}

toLowerCase(day) ==
    CASE day = "Monday" -> "monday"
      [] day = "Tuesday" -> "tuesday"
      [] OTHER -> day

validDays == {"monday", "tuesday", "wednesday", "thursday", "friday", "saturday"}

\* The :hour values of the requests and what parseInt(hour) gives for each.
HourInputs == {"1", "3", "03", "9", "0", "x"}

NaN == [nan |-> TRUE, value |-> 0]

Num(n) == [nan |-> FALSE, value |-> n]

parseInt(hour) ==
    CASE hour = "1" -> Num(1)
      [] hour = "3" -> Num(3)
      [] hour = "03" -> Num(3)
      [] hour = "9" -> Num(9)
      [] hour = "0" -> Num(0)
      [] OTHER -> NaN

isNaN(x) == x.nan

\* !value for a string field of a request body
Falsy(value) == value \in {Undefined, ""}

TimetableEntry(hour, subject, teacher, startTime, endTime) ==
    [hour |-> hour, subject |-> subject, teacher |-> teacher,
     startTime |-> startTime, endTime |-> endTime]

\* Array.prototype.sort((a, b) => a.hour - b.hour): ascending by hour, entries of
\* equal hour in their former order
RECURSIVE SortByHour(_)
SortByHour(arr) ==
    IF arr = <<>> THEN <<>>
    ELSE LET least == CHOOSE h \in {arr[i].hour : i \in DOMAIN arr} :
                          \A i \in DOMAIN arr : h <= arr[i].hour
         IN SelectSeq(arr, LAMBDA e : e.hour = least)
                \o SortByHour(SelectSeq(arr, LAMBDA e : e.hour # least))

EntryNeverRejected(entry) == FALSE

\* The two checks of the loop over timetableEntries
EntryRejected(entry) ==
    \/ entry.hour = 0 \/ Falsy(entry.subject)
    \/ entry.hour < 1 \/ entry.hour > 8

TimetableFrame == UNCHANGED <<adminUsers, users, nextBatchId, attendance, nextAttId, pending>>

\* ---------------------------------- POST /admin/batches/:batchId/timetable
SetDay(batchId, day, timetableEntries) ==
    LET in == [batchId |-> batchId, day |-> day, timetableEntries |-> timetableEntries]
        items == timetableEntries.items
    IN
    /\ IF toLowerCase(day) \notin validDays
       THEN /\ last' = Response("setDay", BadRequest, in, <<>>)
            /\ UNCHANGED batches
       ELSE IF ~timetableEntries.array
       THEN /\ last' = Response("setDay", BadRequest, in, <<>>)
            /\ UNCHANGED batches
       ELSE IF \E i \in DOMAIN items : EntryRejected(items[i])
       THEN /\ last' = Response("setDay", BadRequest, in, <<>>)
            /\ UNCHANGED batches
       ELSE IF batchId \notin DOMAIN batches
       THEN /\ last' = Response("setDay", NotFound, in, <<>>)
            /\ UNCHANGED batches
       ELSE /\ batches' = [batches EXCEPT ![batchId].timetable[toLowerCase(day)] = items]
            /\ last' = Response("setDay", OK, in, batches'[batchId].timetable)
    /\ TimetableFrame

\* ------------------------ PUT /admin/batches/:batchId/timetable/:day/:hour
UpsertEntry(teacherId, batchId, day, hour, subject, teacher, startTime, endTime) ==
    LET in == [teacherId |-> teacherId, batchId |-> batchId, day |-> day, hour |-> hour,
               subject |-> subject, teacher |-> teacher,
               startTime |-> startTime, endTime |-> endTime]
        hourNum == parseInt(hour)
    IN
    /\ IF teacherId \notin adminUsers
       THEN /\ last' = Response("upsertEntry", Unauthorized, in, <<>>)
            /\ UNCHANGED batches
       ELSE IF Falsy(subject)
       THEN /\ last' = Response("upsertEntry", BadRequest, in, <<>>)
            /\ UNCHANGED batches
       ELSE IF toLowerCase(day) \notin validDays
       THEN /\ last' = Response("upsertEntry", BadRequest, in, <<>>)
            /\ UNCHANGED batches
       ELSE IF isNaN(hourNum) \/ hourNum.value < 1
       THEN /\ last' = Response("upsertEntry", BadRequest, in, <<>>)
            /\ UNCHANGED batches
       ELSE IF batchId \notin DOMAIN batches
       THEN /\ last' = Response("upsertEntry", NotFound, in, <<>>)
            /\ UNCHANGED batches
       ELSE IF batches[batchId].teacher_id # teacherId
       THEN /\ last' = Response("upsertEntry", Forbidden, in, <<>>)
            /\ UNCHANGED batches
       ELSE LET daySchedule == batches[batchId].timetable[toLowerCase(day)]
                entryIndex == findIndex(daySchedule, LAMBDA entry : entry.hour = hourNum.value)
                old == daySchedule[entryIndex]
                written ==
                    IF entryIndex = 0
                    THEN Append(daySchedule,
                                TimetableEntry(hourNum.value, subject, teacher, startTime, endTime))
                    ELSE [daySchedule EXCEPT ![entryIndex] =
                            TimetableEntry(old.hour, subject,
                                IF teacher # Undefined THEN teacher ELSE old.teacher,
                                IF startTime # Undefined THEN startTime ELSE old.startTime,
                                IF endTime # Undefined THEN endTime ELSE old.endTime)]
            IN /\ batches' = [batches EXCEPT
                                ![batchId].timetable[toLowerCase(day)] = SortByHour(written)]
               /\ last' = Response("upsertEntry", OK, in, batches'[batchId].timetable)
    /\ TimetableFrame

\* --------------------- DELETE /admin/batches/:batchId/timetable/:day/:hour
DeleteEntry(teacherId, batchId, day, hour) ==
    LET in == [teacherId |-> teacherId, batchId |-> batchId, day |-> day, hour |-> hour]
        hourNum == parseInt(hour)
        refuse(code) == /\ last' = Response("deleteEntry", code, in, <<>>)
                        /\ UNCHANGED batches
    IN
    /\ IF teacherId \notin adminUsers THEN refuse(Unauthorized)
       ELSE IF toLowerCase(day) \notin validDays THEN refuse(BadRequest)
       ELSE IF isNaN(hourNum) \/ hourNum.value < 1 \/ hourNum.value > 8 THEN refuse(BadRequest)
       ELSE IF batchId \notin DOMAIN batches THEN refuse(NotFound)
       ELSE IF batches[batchId].teacher_id # teacherId THEN refuse(Forbidden)
       ELSE LET daySchedule == batches[batchId].timetable[toLowerCase(day)]
                entryIndex == findIndex(daySchedule, LAMBDA entry : entry.hour = hourNum.value)
            IN IF entryIndex = 0 THEN refuse(NotFound)
               ELSE /\ batches' = [batches EXCEPT ![batchId].timetable[toLowerCase(day)] =
                                      splice1(daySchedule, entryIndex)]
                    /\ last' = Response("deleteEntry", OK, in, batches'[batchId].timetable)
    /\ TimetableFrame

\* --------------------------- DELETE /admin/batches/:batchId/timetable/:day
ClearDay(teacherId, batchId, day) ==
    LET in == [teacherId |-> teacherId, batchId |-> batchId, day |-> day]
        refuse(code) == /\ last' = Response("clearDay", code, in, <<>>)
                        /\ UNCHANGED batches
    IN
    /\ IF teacherId \notin adminUsers THEN refuse(Unauthorized)
       ELSE IF toLowerCase(day) \notin validDays THEN refuse(BadRequest)
       ELSE IF batchId \notin DOMAIN batches THEN refuse(NotFound)
       ELSE IF batches[batchId].teacher_id # teacherId THEN refuse(Forbidden)
       ELSE /\ batches' = [batches EXCEPT ![batchId].timetable[toLowerCase(day)] = <<>>]
            /\ last' = Response("clearDay", OK, in, batches'[batchId].timetable)
    /\ TimetableFrame

\* ------------------------------------------------------ timetable behaviours
Slot(hour, subject) == TimetableEntry(hour, subject, Undefined, Undefined, Undefined)

EntryLists ==
    { <<>>,
      <<Slot(3, "math")>>,
      <<Slot(3, "math"), Slot(3, "art")>>,
      <<Slot(3, "math"), Slot(1, "art")>>,
      <<Slot(9, "math")>>,
      <<Slot(0, "math")>>,
      <<Slot(1, "math"), Slot(2, "")>> }

SetDayRequests ==
    {[batchId |-> 1, day |-> "monday", timetableEntries |-> [array |-> TRUE, items |-> l]] :
        l \in EntryLists}
    \cup {[batchId |-> 1, day |-> "Tuesday",
           timetableEntries |-> [array |-> TRUE, items |-> <<Slot(2, "art")>>]]}
    \cup {[batchId |-> b, day |-> d, timetableEntries |-> [array |-> a, items |-> <<>>]] :
            b \in 1..2, d \in {"monday", "sunday"}, a \in BOOLEAN}

UpsertRequests ==
    {[teacherId |-> "t1", batchId |-> 1, day |-> d, hour |-> h, subject |-> s, teacher |-> t] :
        d \in {"monday", "Monday"}, h \in {"1", "3", "03", "9"},
        s \in {"physics", "art"}, t \in {Undefined}}
    \cup {[teacherId |-> "t1", batchId |-> 1, day |-> "monday", hour |-> "3",
           subject |-> "physics", teacher |-> "kim"]}
    \cup {[teacherId |-> t, batchId |-> b, day |-> "monday", hour |-> "3",
           subject |-> "physics", teacher |-> Undefined] : t \in {"t2", "tx"}, b \in 1..2}
    \cup {[teacherId |-> "t1", batchId |-> 1, day |-> d, hour |-> h,
           subject |-> s, teacher |-> Undefined] :
            d \in {"monday", "sunday"}, h \in {"3", "0", "x"}, s \in {"physics", ""}}

DeleteRequests ==
    {[teacherId |-> "t1", batchId |-> 1, day |-> "Monday", hour |-> h] :
        h \in {"1", "03", "9", "x"}}
    \cup {[teacherId |-> t, batchId |-> b, day |-> d, hour |-> "3"] :
            t \in {"t2", "tx"}, b \in 1..2, d \in {"monday", "sunday"}}

ClearRequests ==
    {[teacherId |-> "t1", batchId |-> b, day |-> d] :
        b \in 1..2, d \in {"Monday", "sunday"}}
    \cup {[teacherId |-> t, batchId |-> 1, day |-> "monday"] : t \in {"t2", "tx"}}

NextTimetable ==
    \/ CreateBatch(<<"a">>, "n1", "c1", "t1")
    \/ \E r \in SetDayRequests : SetDay(r.batchId, r.day, r.timetableEntries)
    \/ \E r \in UpsertRequests :
          UpsertEntry(r.teacherId, r.batchId, r.day, r.hour, r.subject, r.teacher,
                      Undefined, Undefined)
    \/ \E r \in DeleteRequests : DeleteEntry(r.teacherId, r.batchId, r.day, r.hour)
    \/ \E r \in ClearRequests : ClearDay(r.teacherId, r.batchId, r.day)

SpecTimetable == Init /\ [][NextTimetable]_vars

\* ===================================================== properties: timetable
IsSortedByHour(arr) == \A i \in 1..(Len(arr) - 1) : arr[i].hour <= arr[i + 1].hour

UpsertAnswered(r) == r.op = "upsertEntry" /\ r.status = OK

SameSlot(r1, r2) ==
    /\ r1.in.batchId = r2.in.batchId
    /\ toLowerCase(r1.in.day) = toLowerCase(r2.in.day)
    /\ parseInt(r1.in.hour) = parseInt(r2.in.hour)

DayListAfter(r) == batches'[r.in.batchId].timetable[toLowerCase(r.in.day)]

UpsertKeepsSorted == UpsertAnswered(last') => IsSortedByHour(DayListAfter(last'))

SecondUpsertOneEntry ==
    (UpsertAnswered(last) /\ UpsertAnswered(last') /\ SameSlot(last, last'))
    => LET list == DayListAfter(last')
           slot == {i \in DOMAIN list : list[i].hour = parseInt(last'.in.hour).value}
       IN /\ Cardinality(slot) = 1
          /\ \A i \in slot : list[i].subject = last'.in.subject

\* C8: a successful timetable upsert by the owning teacher directly followed by a
\* second successful upsert at the same (day, hour) of the same batch leaves
\* exactly one entry for that slot, carrying the second call's subject, and the
\* day's list is sorted by hour ascending after each upsert.
C8_UpsertTwiceOneEntry == [][UpsertKeepsSorted /\ SecondUpsertOneEntry]_vars

\* ============================================================= fee payments
\* The JSON values of req.body.amount, as written in the body, and what
\* Number(amount) gives for each.
AmountInputs == {"500", "'500'", "250", "0", "-5", "'abc'"}

Number(amount) ==
    CASE amount = "500" -> Num(500)
      [] amount = "'500'" -> Num(500)
      [] amount = "250" -> Num(250)
      [] amount = "0" -> Num(0)
      [] amount = "-5" -> Num(0 - 5)
      [] OTHER -> NaN

\* !amount || isNaN(amount) || Number(amount) <= 0
AmountRejected(amount) ==
    \/ Falsy(amount) \/ Number(amount) = Num(0)
    \/ isNaN(Number(amount))
    \/ Number(amount).value <= 0

\* paymentData, without its paymentDate
PaymentData(studentId, amount, paymentMethod, status, remarks) ==
    [student |-> studentId, amount |-> Number(amount).value,
     paymentMethod |-> paymentMethod, status |-> status,
     remarks |-> IF Falsy(remarks) THEN "" ELSE remarks]

NoExistingPayment(feesPayments, studentId) == 0

\* batch.feesPayments.findIndex(payment => payment.student.toString() === studentId)
existingPaymentIndex(feesPayments, studentId) ==
    findIndex(feesPayments, LAMBDA payment : payment.student = studentId)

\* --------------------------------------- POST /admin/batches/:batchId/fees
UpsertFee(batchId, studentId, amount, paymentMethod, status, remarks) ==
    LET in == [batchId |-> batchId, studentId |-> studentId, amount |-> amount,
               paymentMethod |-> paymentMethod, status |-> status, remarks |-> remarks]
        refuse(code) == /\ last' = Response("upsertFee", code, in, <<>>)
                        /\ UNCHANGED batches
    IN
    /\ IF ~isValid(batchId) THEN refuse(BadRequest)
       ELSE IF ~isValid(studentId) THEN refuse(BadRequest)
       ELSE IF AmountRejected(amount) THEN refuse(BadRequest)
       ELSE IF paymentMethod \notin {"online", "offline"} THEN refuse(BadRequest)
       ELSE IF status \notin {"paid", "pending", "overdue"} THEN refuse(BadRequest)
       ELSE IF batchId \notin DOMAIN batches THEN refuse(NotFound)
       ELSE IF ~includes(batches[batchId].students, studentId) THEN refuse(NotFound)
       ELSE LET feesPayments == batches[batchId].feesPayments
                index == existingPaymentIndex(feesPayments, studentId)
                paymentData == PaymentData(studentId, amount, paymentMethod, status, remarks)
                saved == IF index # 0
                         THEN [feesPayments EXCEPT ![index] = paymentData]
                         ELSE Append(feesPayments, paymentData)
            IN /\ batches' = [batches EXCEPT ![batchId].feesPayments = saved]
               /\ last' = Response("upsertFee", OK, in, saved)
    /\ UNCHANGED <<adminUsers, users, nextBatchId, attendance, nextAttId, pending>>

\* --------------------------------------------------- fee payment behaviours
FeeRequest(batchId, studentId, amount, paymentMethod, status, remarks) ==
    [batchId |-> batchId, studentId |-> studentId, amount |-> amount,
     paymentMethod |-> paymentMethod, status |-> status, remarks |-> remarks]

FeeRequests ==
    {FeeRequest(b, s, "500", "online", "paid", Undefined) : b \in 1..2, s \in 1..3}
    \cup {FeeRequest(1, s, "'500'", "online", "paid", "") : s \in 1..2}
    \cup {FeeRequest(1, s, "250", "offline", "pending", "late") : s \in 1..2}
    \cup {FeeRequest(b, s, "250", "offline", "overdue", "late") :
            b \in {1, MalformedId}, s \in {1, MalformedId}}
    \cup {FeeRequest(1, s, a, "online", "paid", Undefined) :
            s \in {1, 3}, a \in {"0", "-5", "'abc'"}}
    \cup {FeeRequest(1, s, "500", m, st, Undefined) :
            s \in {1, 3}, m \in {"online", "cash"}, st \in {"paid", "late"}}

NextFees ==
    \/ CreateBatch(<<"a">>, "n1", "c1", "t1")
    \/ \E tok \in 1..2 : JoinBatch(tok, <<"a">>)
    \/ \E s \in 1..2 : RemoveStudent("t1", 1, s)
    \/ \E r \in FeeRequests :
          UpsertFee(r.batchId, r.studentId, r.amount, r.paymentMethod, r.status, r.remarks)

SpecFees == Init /\ [][NextFees]_vars

\* ================================================== properties: fee payments
FeeAnswered(r) == r.op = "upsertFee" /\ r.status = OK

PaymentsOf(batch, studentId) ==
    {i \in DOMAIN batch.feesPayments : batch.feesPayments[i].student = studentId}

OneRecordPerStudent ==
    \A b \in DOMAIN batches : \A s \in UserIdInputs :
        Cardinality(PaymentsOf(batches[b], s)) <= 1

\* A fee upsert naming a student who is not in batch.students fails and writes
\* nothing; it is answered 404 when the ids are well-formed, the amount, method
\* and status are valid and the batch exists.
NotEnrolledRefused ==
    (/\ last'.op = "upsertFee"
     /\ \/ last'.in.batchId \notin DOMAIN batches
        \/ ~includes(batches[last'.in.batchId].students, last'.in.studentId))
    => /\ last'.status \notin {OK, Created}
       /\ batches' = batches
       /\ (/\ last'.in.batchId \in DOMAIN batches
           /\ isValid(last'.in.studentId)
           /\ ~AmountRejected(last'.in.amount)
           /\ last'.in.paymentMethod \in {"online", "offline"}
           /\ last'.in.status \in {"paid", "pending", "overdue"})
          => last'.status = NotFound

\* The student's record after a successful upsert is the upsert's values; every
\* other record, and every record under any other step, stays as it was.
LatestValuesKept ==
    \A b \in DOMAIN batches :
        IF FeeAnswered(last') /\ last'.in.batchId = b
        THEN LET fees == batches'[b].feesPayments
                 mine == PaymentsOf(batches'[b], last'.in.studentId)
             IN /\ Cardinality(mine) = 1
                /\ \A i \in mine :
                      /\ fees[i].amount = Number(last'.in.amount).value
                      /\ fees[i].paymentMethod = last'.in.paymentMethod
                      /\ fees[i].status = last'.in.status
                      /\ fees[i].remarks =
                            (IF last'.in.remarks = Undefined THEN "" ELSE last'.in.remarks)
                /\ \A s \in UserIdInputs \ {last'.in.studentId} :
                      {fees[i] : i \in PaymentsOf(batches'[b], s)}
                        = {batches[b].feesPayments[i] : i \in PaymentsOf(batches[b], s)}
        ELSE batches'[b].feesPayments = batches[b].feesPayments

\* C9: a fee payment upsert for a student who is not in batch.students fails
\* with NotFound (404) and leaves feesPayments unchanged; after any sequence of
\* fee upserts a batch holds at most one fee record per student, and that record
\* carries the amount, method, status and remarks of the most recent successful
\* upsert for that student.
C9_FeeUpsert == []OneRecordPerStudent /\ [][NotEnrolledRefused /\ LatestValuesKept]_vars

\* A second upsert for the student of the batch's first record, after another
\* student's record was added: the first record was rewritten in place.
C9_Witness ==
    /\ FeeAnswered(last)
    /\ LET fees == batches[last.in.batchId].feesPayments
       IN /\ Len(fees) = 2
          /\ fees[1].student = last.in.studentId
          /\ fees[1].amount = 250
          /\ fees[1].remarks = "late"

\* ============================================================ parent access
\* ------------------------------------------------ POST /user/register/parent
RegisterParent(email, studentEmail) ==
    LET in == [email |-> email, studentEmail |-> studentEmail]
        existingUser == {u \in DOMAIN users : users[u].email = email}
        students == {u \in DOMAIN users :
                        users[u].email = studentEmail /\ users[u].role = "student"}
    IN
    /\ IF existingUser # {}
       THEN /\ last' = Response("registerParent", Conflict, in, <<>>)
            /\ UNCHANGED users
       ELSE IF students = {}
       THEN /\ last' = Response("registerParent", NotFound, in, <<>>)
            /\ UNCHANGED users
       ELSE /\ Len(users) < MaxUsers
            /\ LET student == CHOOSE u \in students : \A o \in students : u <= o
               IN users' = Append([users EXCEPT ![student].parentEmail = email],
                                  Account("parent", email, Undefined))
            /\ last' = Response("registerParent", Created, in, Len(users) + 1)
    /\ UNCHANGED <<adminUsers, batches, nextBatchId, attendance, nextAttId, pending>>

\* batch.students.some(id => id.toString() === studentId)
isEnrolled(batch, studentId) == \E i \in DOMAIN batch.students : batch.students[i] = studentId

ParentReadFrame ==
    UNCHANGED <<adminUsers, users, batches, nextBatchId, attendance, nextAttId, pending>>

\* ------------------------------- GET /user/parent/batches/:batchId/tests
ParentTests(authHeader, batchId, studentId) ==
    LET in == [caller |-> authHeader, batchId |-> batchId, studentId |-> studentId]
        answer(code, body) == last' = Response("parentTests", code, in, body)
    IN
    /\ IF authHeader = NoAuthHeader THEN answer(Unauthorized, <<>>)
       ELSE IF studentId = NoStudentId THEN answer(BadRequest, <<>>)
       ELSE IF authHeader = InvalidToken
       THEN \* jwt.verify throws; the inner catch answers 401
            answer(Unauthorized, <<>>)
       ELSE IF ~UserExists(authHeader) THEN answer(Unauthorized, <<>>)
       ELSE IF ~isValid(studentId)
       THEN \* User.findById(studentId) throws CastError inside the inner try
            answer(Unauthorized, <<>>)
       ELSE IF ~UserExists(studentId) THEN answer(NotFound, <<>>)
       ELSE IF ~ParentLinked(authHeader, studentId) THEN answer(Forbidden, <<>>)
       ELSE IF ~isValid(batchId)
       THEN \* Batch.findById(batchId) throws CastError inside the inner try
            answer(Unauthorized, <<>>)
       ELSE IF batchId \notin DOMAIN batches THEN answer(NotFound, <<>>)
       ELSE IF ~isEnrolled(batches[batchId], studentId) THEN answer(Forbidden, <<>>)
       ELSE answer(OK, batches[batchId].testResults)
    /\ ParentReadFrame

\* -------------------------------- GET /user/parent/batches/:batchId/fees
ParentFees(parentId, batchId, studentId) ==
    LET in == [caller |-> parentId, batchId |-> batchId, studentId |-> studentId]
        answer(code, body) == last' = Response("parentFees", code, in, body)
    IN
    /\ IF ~isValid(batchId) THEN answer(BadRequest, <<>>)
       ELSE IF studentId = NoStudentId \/ ~isValid(studentId) THEN answer(BadRequest, <<>>)
       ELSE IF ~isValid(parentId)
       THEN \* User.findById(parentId) throws CastError
            answer(ServerError, <<>>)
       ELSE IF ~IsParent(parentId) THEN answer(Forbidden, <<>>)
       ELSE IF ~ParentLinked(parentId, studentId) THEN answer(Forbidden, <<>>)
       ELSE IF batchId \notin DOMAIN batches THEN answer(NotFound, <<>>)
       ELSE IF ~isEnrolled(batches[batchId], studentId) THEN answer(Forbidden, <<>>)
       ELSE LET feesPayments == batches[batchId].feesPayments
                index == existingPaymentIndex(feesPayments, studentId)
            IN answer(OK, IF index = 0 THEN <<>> ELSE <<feesPayments[index]>>)
    /\ ParentReadFrame

\* ------------------------------------------------- parent access behaviours
\* An id that resolves to no account.
UnknownUser == MaxUsers + 1

CallerInputs == {1, 3, 4, UnknownUser, MalformedId}

NextParent ==
    \/ CreateBatch(<<"a">>, "n1", "c1", "t1")
    \/ \E tok \in 1..2 : JoinBatch(tok, <<"a">>)
    \/ \E email \in {"p1@x", "p2@x"}, studentEmail \in {"s1@x", "p1@x"} :
          RegisterParent(email, studentEmail)
    \/ MarkAttendance("t1", 1, "2024-01-01", <<Entry(1, "present")>>)
    \/ UpsertFee(1, 1, "500", "online", "paid", Undefined)
    \/ \E tok \in CallerInputs \cup {NoAuthHeader}, b \in {1, 2, MalformedId},
          s \in {1, 2, UnknownUser, MalformedId} :
          ParentStudentAttendance(tok, b, s, NoRange)
    \/ \E tok \in CallerInputs \cup {NoAuthHeader}, b \in {1, 2, MalformedId},
          s \in {1, 2, UnknownUser, MalformedId, NoStudentId} :
          ParentTests(tok, b, s)
    \/ \E parentId \in CallerInputs, b \in {1, 2, MalformedId},
          s \in {1, 2, UnknownUser, MalformedId, NoStudentId} :
          ParentFees(parentId, b, s)

SpecParent == Init /\ [][NextParent]_vars

\* ================================================= properties: parent access
ParentReads == {"parentStudentAttendance", "parentTests", "parentFees"}

\* The caller of a read resolves to an account: a verified token, or the
\* parentId of the fees query.
CallerKnown(r) == r.in.caller \in DOMAIN users

StudentKnown(r) == r.in.studentId \in DOMAIN users /\ users[r.in.studentId].role = "student"

EmailsMatch(r) == users[r.in.studentId].parentEmail = users[r.in.caller].email

DataOnlyWhenLinked ==
    (last'.op \in ParentReads /\ last'.status = OK)
    => /\ CallerKnown(last')
       /\ last'.in.studentId \in DOMAIN users
       /\ EmailsMatch(last')

\* For an existing student and a caller whose email is not the student's
\* parentEmail the answer is 403, whatever the batch id names; the fees route
\* first answers 400 to a batch id that is no ObjectId.
MismatchForbidden ==
    (/\ last'.op \in ParentReads
     /\ CallerKnown(last') /\ StudentKnown(last')
     /\ ~EmailsMatch(last')
     /\ ~(last'.op = "parentFees" /\ ~isValid(last'.in.batchId)))
    => last'.status = Forbidden

\* C10: a parent read of a student's attendance, tests or fees returns data only
\* when student.parentEmail equals the parent's email; for an existing student
\* whose parentEmail differs from the parent's email the read fails with
\* Forbidden (403), whether or not the student is enrolled in the batch and
\* whether or not the batch exists.
C10_ParentReadsLinkedOnly == [][DataOnlyWhenLinked /\ MismatchForbidden]_vars

\* The parent first linked to student 1 reads the student's fees for a batch
\* that does not exist, after another parent registered for the student, and
\* gets 403.
C10_Witness ==
    /\ last.op = "parentFees"
    /\ last.status = Forbidden
    /\ last.in.caller = 3 /\ last.in.studentId = 1
    /\ users[3].role = "parent"
    /\ users[1].parentEmail # users[3].email
    /\ last.in.batchId \notin DOMAIN batches

EnrolledIn(batchId, studentId) ==
    batchId \in DOMAIN batches /\ includes(batches[batchId].students, studentId)

ParentAttendanceNeedsBoth ==
    last'.op = "parentStudentAttendance"
    => /\ last'.status = OK
            => /\ CallerKnown(last')
               /\ last'.in.studentId \in DOMAIN users
               /\ EmailsMatch(last')
               /\ EnrolledIn(last'.in.batchId, last'.in.studentId)
       /\ (/\ CallerKnown(last') /\ StudentKnown(last') /\ EmailsMatch(last')
           /\ users[last'.in.caller].role = "parent"
           /\ isValid(last'.in.batchId)
           /\ ~EnrolledIn(last'.in.batchId, last'.in.studentId))
            => last'.status = Forbidden

\* C11: a parent's read of a student's attendance in a batch succeeds only if
\* the student's parentEmail equals the parent's email and the student is in the
\* batch's students list; for a student who is not enrolled in the batch the
\* read fails with Forbidden (403).
C11_ParentAttendanceNeedsEnrolment == [][ParentAttendanceNeedsBoth]_vars

\* ==================================================== ownership behaviours
\* One batch, created by either teacher, and the batch-scoped mutations called
\* by the owner, by the other teacher and by an unknown teacher.  The requests
\* of addStudents, setDay and upsertFee carry no credentials: their handlers
\* read none.
NextOwnership ==
    \/ \E t \in TeacherIds : CreateBatch(<<"a">>, "n1", "c1", t)
    \/ \E b \in 1..2 : AddStudents(b, [array |-> TRUE, items |-> <<1>>])
    \/ \E t \in TeacherIdInputs, b \in 1..2 : RemoveStudent(t, b, 1)
    \/ \E t \in TeacherIdInputs, b \in 1..2 :
          MarkAttendance(t, b, "2024-01-01", <<Entry(1, "present")>>)
    \/ \E t \in TeacherIdInputs, b \in 1..2, a \in 1..2 :
          UpdateAttendance(t, b, a, [array |-> TRUE, items |-> <<Entry(1, "absent")>>])
    \/ \E t \in TeacherIdInputs, b \in 1..2 :
          UpsertEntry(t, b, "monday", "3", "physics", Undefined, Undefined, Undefined)
    \/ \E b \in 1..2 : SetDay(b, "monday", [array |-> TRUE, items |-> <<Slot(1, "math")>>])
    \/ \E b \in 1..2 : UpsertFee(b, 1, "500", "online", "paid", Undefined)

SpecOwnership == Init /\ [][NextOwnership]_vars

\* ===================================================== properties: ownership
\* The mutations whose handler reads the caller's id from the bearer header
IdentifiedMutations == {"removeStudent", "markAttendance", "updateAttendance", "upsertEntry"}

\* The mutations whose handler reads no credentials
AnonymousMutations == {"addStudents", "setDay", "upsertFee"}

StoredStateChanges == batches' # batches \/ attendance' # attendance

OwnerCalls(r) ==
    /\ r.in.batchId \in DOMAIN batches
    /\ batches[r.in.batchId].teacher_id = r.in.teacherId

OnlyOwnerMutates ==
    /\ last'.op \in IdentifiedMutations
        => /\ StoredStateChanges => OwnerCalls(last')
           /\ (/\ last'.in.batchId \in DOMAIN batches
               /\ last'.in.teacherId \in adminUsers
               /\ ~OwnerCalls(last'))
                => last'.status = Forbidden
    /\ last'.op \in AnonymousMutations => ~StoredStateChanges

\* C12: every batch-scoped mutation changes stored state only when the caller's
\* identity equals the batch's teacher_id; a call by any other registered
\* teacher on an existing batch fails with Forbidden (403).
C12_OnlyOwnerMutates == [][OnlyOwnerMutates]_vars

\* ================================================== batch update and delete
OwnsAlways(batch, teacherId) == TRUE

\* batch.teacher_id.toString() !== teacherId, negated
ownsBatch(batch, teacherId) == batch.teacher_id = teacherId

BatchFrame == UNCHANGED <<adminUsers, users, nextBatchId, attendance, nextAttId, pending>>

\* An update that writes the caller into teacher_id along with the fields.
UpdateBatchTakingOver(teacherId, batchId, name, class) ==
    LET in == [teacherId |-> teacherId, batchId |-> batchId, name |-> name, class |-> class]
    IN
    /\ IF teacherId \notin adminUsers \/ batchId \notin DOMAIN batches
       THEN /\ last' = Response("updateBatch", NotFound, in, <<>>)
            /\ UNCHANGED batches
       ELSE /\ batches' = [batches EXCEPT ![batchId].teacher_id = teacherId]
            /\ last' = Response("updateBatch", OK, in, batches'[batchId])
    /\ BatchFrame

\* A delete that also removes the attendance documents of the batch.
DeleteBatchCascading(teacherId, batchId) ==
    LET in == [teacherId |-> teacherId, batchId |-> batchId]
    IN
    /\ IF batchId \notin DOMAIN batches \/ ~ownsBatch(batches[batchId], teacherId)
       THEN /\ last' = Response("deleteBatch", NotFound, in, <<>>)
            /\ UNCHANGED <<batches, attendance>>
       ELSE /\ batches' = Remove(batches, batchId)
            /\ attendance' = [a \in {x \in DOMAIN attendance :
                                        attendance[x].batch_id # batchId}
                                |-> attendance[a]]
            /\ last' = Response("deleteBatch", OK, in, <<>>)
    /\ UNCHANGED <<adminUsers, users, nextBatchId, nextAttId, pending>>

\* ------------------------------------------ PUT /admin/batches/:batchId
UpdateBatch(teacherId, batchId, name, class) ==
    LET in == [teacherId |-> teacherId, batchId |-> batchId, name |-> name, class |-> class]
        refuse(code) == /\ last' = Response("updateBatch", code, in, <<>>)
                        /\ UNCHANGED batches
    IN
    /\ IF teacherId \notin adminUsers THEN refuse(Unauthorized)
       ELSE IF batchId \notin DOMAIN batches THEN refuse(NotFound)
       ELSE IF ~ownsBatch(batches[batchId], teacherId) THEN refuse(Forbidden)
       ELSE /\ batches' = [batches EXCEPT
                              ![batchId].name = IF Falsy(name) THEN @ ELSE name,
                              ![batchId].class = IF Falsy(class) THEN @ ELSE class]
            /\ last' = Response("updateBatch", OK, in, batches'[batchId])
    /\ BatchFrame

\* --------------------------------------- DELETE /admin/batches/:batchId
DeleteBatch(teacherId, batchId) ==
    LET in == [teacherId |-> teacherId, batchId |-> batchId]
        refuse(code) == /\ last' = Response("deleteBatch", code, in, <<>>)
                        /\ UNCHANGED batches
    IN
    /\ IF batchId \notin DOMAIN batches THEN refuse(NotFound)
       ELSE IF ~ownsBatch(batches[batchId], teacherId) THEN refuse(Forbidden)
       ELSE /\ batches' = Remove(batches, batchId)
            /\ last' = Response("deleteBatch", OK, in, <<>>)
    /\ BatchFrame

\* ------------------------------------------------- batch admin behaviours
\* The name and class of an update request: either, both or none supplied.
UpdateFields ==
    { [name |-> "n2", class |-> Undefined],
      [name |-> "", class |-> "c2"],
      [name |-> Undefined, class |-> Undefined] }

NextBatchAdmin ==
    \/ \E t \in TeacherIds : CreateBatch(<<"a">>, "n1", "c1", t)
    \/ CreateBatch(<<"b">>, "n1", "c1", "t1")
    \/ JoinBatch(1, <<"a">>)
    \/ \E t \in TeacherIdInputs, b \in BatchIdInputs, f \in UpdateFields :
          UpdateBatch(t, b, f.name, f.class)
    \/ \E t \in TeacherIdInputs, b \in BatchIdInputs : DeleteBatch(t, b)

SpecBatchAdmin == Init /\ [][NextBatchAdmin]_vars

\* =================================================== properties: batch admin
BatchAdminOps == {"updateBatch", "deleteBatch"}

NonOwnerChangesNothing ==
    (/\ last'.op \in BatchAdminOps
     /\ last'.in.batchId \in DOMAIN batches
     /\ batches[last'.in.batchId].teacher_id # last'.in.teacherId)
    => /\ last'.status # OK
       /\ batches' = batches
       /\ (last'.op = "deleteBatch" \/ last'.in.teacherId \in adminUsers)
            => last'.status = Forbidden

OwnerUpdatesSuppliedFields ==
    (/\ last'.op = "updateBatch"
     /\ last'.in.batchId \in DOMAIN batches
     /\ batches[last'.in.batchId].teacher_id = last'.in.teacherId)
    => LET b == last'.in.batchId
           supplied(v) == v \notin {Undefined, ""}
       IN /\ last'.status = OK
          /\ DOMAIN batches' = DOMAIN batches
          /\ \A o \in DOMAIN batches \ {b} : batches'[o] = batches[o]
          /\ batches'[b].name = (IF supplied(last'.in.name) THEN last'.in.name
                                 ELSE batches[b].name)
          /\ batches'[b].class = (IF supplied(last'.in.class) THEN last'.in.class
                                  ELSE batches[b].class)
          /\ [batches'[b] EXCEPT !.name = "", !.class = ""]
                = [batches[b] EXCEPT !.name = "", !.class = ""]

OwnerDeletesThatBatch ==
    (/\ last'.op = "deleteBatch"
     /\ last'.in.batchId \in DOMAIN batches
     /\ batches[last'.in.batchId].teacher_id = last'.in.teacherId)
    => /\ last'.status = OK
       /\ DOMAIN batches' = DOMAIN batches \ {last'.in.batchId}
       /\ \A o \in DOMAIN batches' : batches'[o] = batches[o]

\* C13: batch update and batch delete called with an identity different from
\* batch.teacher_id fail with Forbidden (403) and leave that batch and every
\* other batch unchanged; called by the owner, update changes only the supplied
\* fields among name and class, and delete removes exactly that batch.
C13_BatchUpdateDelete ==
    [][NonOwnerChangesNothing /\ OwnerUpdatesSuppliedFields /\ OwnerDeletesThatBatch]_vars

\* The other teacher asked to delete a batch that has a member, while a second
\* batch exists, and got 403.
C13_Witness ==
    /\ last.op = "deleteBatch"
    /\ last.status = Forbidden
    /\ last.in.teacherId \in adminUsers
    /\ Cardinality(DOMAIN batches) = 2
    /\ batches[last.in.batchId].students # <<>>

\* ===================================================== properties: bulk add
\* The list of a bulk-add request fails validation: it is no list, it is empty,
\* or one of its ids resolves to no account with role student.
BulkAddInvalid(r) ==
    \/ ~r.in.studentIds.array
    \/ r.in.studentIds.items = <<>>
    \/ \E i \in DOMAIN r.in.studentIds.items :
          LET id == r.in.studentIds.items[i]
          IN ~(id \in DOMAIN users /\ users[id].role = "student")

BulkAddAllOrNothing ==
    (last'.op = "addStudents" /\ BulkAddInvalid(last'))
    => /\ last'.status \notin {OK, Created}
       /\ batches' = batches
       /\ (\/ ~last'.in.studentIds.array
           \/ last'.in.studentIds.items = <<>>
           \/ last'.in.batchId \in DOMAIN batches)
            => last'.status = BadRequest

StudentBatch(authHeader, batchId, userId) ==
    LET in == [caller |-> authHeader, batchId |-> batchId, studentId |-> userId]
        answer(code, body) == last' = Response("studentBatch", code, in, body)
    IN
    /\ IF authHeader = NoAuthHeader THEN answer(Unauthorized, <<>>)
       ELSE IF authHeader = InvalidToken THEN answer(Unauthorized, <<>>)
       ELSE IF authHeader # userId THEN answer(Forbidden, <<>>)
       ELSE IF ~isValid(batchId)
       THEN \* Batch.findById throws CastError inside the inner try
            answer(Unauthorized, <<>>)
       ELSE IF batchId \notin DOMAIN batches THEN answer(NotFound, <<>>)
       ELSE IF ~isEnrolled(batches[batchId], userId) THEN answer(Forbidden, <<>>)
       ELSE LET batch == batches[batchId]
            IN answer(OK, [name |-> batch.name, batch_code |-> batch.batch_code,
                           class |-> batch.class, teacher |-> batch.teacher_id,
                           studentsCount |-> Len(batch.students),
                           students |-> batch.students,
                           announcements |-> batch.announcements])
    /\ ParentReadFrame

\* ------------------------------ GET /user/student/batches/:batchId/tests
StudentTests(authHeader, batchId) ==
    LET in == [caller |-> authHeader, batchId |-> batchId, studentId |-> authHeader]
        answer(code, body) == last' = Response("studentTests", code, in, body)
    IN
    /\ IF authHeader = NoAuthHeader THEN answer(Unauthorized, <<>>)
       ELSE IF authHeader = InvalidToken THEN answer(Unauthorized, <<>>)
       ELSE IF ~UserExists(authHeader) THEN answer(Unauthorized, <<>>)
       ELSE IF ~isValid(batchId)
       THEN \* Batch.findById throws CastError inside the inner try
            answer(Unauthorized, <<>>)
       ELSE IF batchId \notin DOMAIN batches THEN answer(NotFound, <<>>)
       ELSE IF ~isEnrolled(batches[batchId], authHeader) THEN answer(Forbidden, <<>>)
       ELSE answer(OK, batches[batchId].testResults)
    /\ ParentReadFrame

\* ------------------------------- GET /user/student/batches/:batchId/fees
StudentFees(batchId, userId) ==
    LET in == [caller |-> userId, batchId |-> batchId, studentId |-> userId]
        answer(code, body) == last' = Response("studentFees", code, in, body)
    IN
    /\ IF ~isValid(batchId) THEN answer(BadRequest, <<>>)
       ELSE IF userId = NoStudentId \/ ~isValid(userId) THEN answer(BadRequest, <<>>)
       ELSE IF batchId \notin DOMAIN batches THEN answer(NotFound, <<>>)
       ELSE IF ~isEnrolled(batches[batchId], userId) THEN answer(Forbidden, <<>>)
       ELSE LET feesPayments == batches[batchId].feesPayments
                index == existingPaymentIndex(feesPayments, userId)
            IN answer(OK, IF index = 0 THEN <<>> ELSE <<feesPayments[index]>>)
    /\ ParentReadFrame

\* --------------------------------------------------- student read behaviours
NextStudent ==
    \/ CreateBatch(<<"a">>, "n1", "c1", "t1")
    \/ \E tok \in 1..2 : JoinBatch(tok, <<"a">>)
    \/ MarkAttendance("t1", 1, "2024-01-01", <<Entry(1, "absent"), Entry(2, "present")>>)
    \/ UpsertFee(1, 1, "500", "online", "paid", Undefined)
    \/ \E tok \in {1, 2, InvalidToken, NoAuthHeader}, b \in {1, 2, MalformedId}, u \in 1..2 :
          StudentBatch(tok, b, u)
    \/ \E tok \in {1, 2, InvalidToken, NoAuthHeader}, b \in {1, 2, MalformedId}, u \in 1..2 :
          StudentAttendance(tok, b, u, NoRange)
    \/ \E tok \in {1, 2, UnknownUser, InvalidToken, NoAuthHeader}, b \in {1, 2, MalformedId} :
          StudentTests(tok, b)
    \/ \E b \in {1, 2, MalformedId}, u \in {1, 2, MalformedId, NoStudentId} :
          StudentFees(b, u)

SpecStudent == Init /\ [][NextStudent]_vars

\* ================================================= properties: student reads
StudentReads == {"studentBatch", "studentAttendance", "studentTests", "studentFees"}

\* The request passes the checks its handler makes before it looks at
\* batch.students: a verified token of an account (none on the fees route),
\* the token's user being the target (batch details), well-formed ids, and an
\* existing batch.
ReachesEnrolmentCheck(r) ==
    /\ r.in.studentId \in DOMAIN users
    /\ r.op # "studentFees" => r.in.caller \in DOMAIN users
    /\ r.op = "studentBatch" => r.in.caller = r.in.studentId
    /\ r.in.batchId \in DOMAIN batches

StudentReadsNeedEnrolment ==
    last'.op \in StudentReads
    => /\ last'.status = OK => EnrolledIn(last'.in.batchId, last'.in.studentId)
       /\ (ReachesEnrolmentCheck(last')
             /\ ~EnrolledIn(last'.in.batchId, last'.in.studentId))
            => last'.status = Forbidden

\* C15: every student-facing read of a batch's records for a target student
\* (batch details, attendance, tests, fees) returns data only if the target
\* student id appears in batch.students; for a student who is not enrolled in
\* the batch the read fails with Forbidden (403).
C15_StudentReadsNeedEnrolment == [][StudentReadsNeedEnrolment]_vars

\* ========================================== properties: timetable invariants
\* C16: in every reachable state, after any sequence of setDay, upsertEntry,
\* deleteEntry and clearDay calls, each day's list of each batch holds at most
\* one entry per hour.
C16_OneEntryPerHour ==
    \A b \in DOMAIN batches : \A d \in Days :
        LET list == batches[b].timetable[d]
        IN \A i, j \in DOMAIN list : list[i].hour = list[j].hour => i = j

TimetableMutations == {"setDay", "upsertEntry", "deleteEntry", "clearDay"}

MutatedDaySorted ==
    (last'.op \in TimetableMutations /\ last'.status = OK)
    => IsSortedByHour(DayListAfter(last'))

\* C17: after every successful timetable mutation (setDay, upsertEntry,
\* deleteEntry, clearDay) the mutated day's list is sorted by hour ascending.
C17_MutatedDaySorted == [][MutatedDaySorted]_vars

\* C18: in every reachable state, every stored timetable entry of every batch
\* has an hour in 1..8, whichever of setDay and upsertEntry stored it.
C18_HoursInRange ==
    \A b \in DOMAIN batches : \A d \in Days :
        \A i \in DOMAIN batches[b].timetable[d] :
            batches[b].timetable[d][i].hour \in 1..8

\* A setDay request the validation of the claim refuses: a day outside
\* monday..saturday, an entry without subject, or an hour outside 1..8.
SetDayInvalid(r) ==
    \/ toLowerCase(r.in.day) \notin {"monday", "tuesday", "wednesday", "thursday",
                                     "friday", "saturday"}
    \/ \E i \in DOMAIN r.in.timetableEntries.items :
          LET e == r.in.timetableEntries.items[i]
          IN e.subject \in {Undefined, ""} \/ e.hour \notin 1..8

SetDayReplacesOrRefuses ==
    last'.op = "setDay"
    => /\ SetDayInvalid(last') => last'.status = BadRequest /\ batches' = batches
       /\ last'.status = OK
            => LET b == last'.in.batchId
                   d == toLowerCase(last'.in.day)
               IN /\ batches'[b].timetable[d] = last'.in.timetableEntries.items
                  /\ \A o \in Days \ {d} : batches'[b].timetable[o] = batches[b].timetable[o]
       /\ (/\ ~SetDayInvalid(last')
           /\ last'.in.timetableEntries.array
           /\ last'.in.batchId \in DOMAIN batches)
            => last'.status = OK

MaxTests == 2
MaxMarks == 3

\* ObjectId#toString / toHexString: the lower-case hex digits of the id.
toHexString(id) ==
    CASE id = 1 -> "1a"
      [] id = 2 -> "2b"
      [] OTHER -> "3c"

\* The ObjectId cast mongoose applies to a string: hex digits are read in
\* either case; a string that is no hex id does not cast.
ObjectId(str) ==
    CASE str \in {"1a", "1A"} -> 1
      [] str \in {"2b", "2B"} -> 2
      [] str \in {"3c", "3C"} -> 3
      [] OTHER -> MalformedId

\* No "Bearer ..." authorization header on the request.
NoBearer == Undefined

\* The _id mongoose gives a pushed test: distinct from every test of the batch.
NewTestId(testResults) ==
    IF testResults = <<>> THEN 1
    ELSE 1 + (CHOOSE m \in {testResults[i]._id : i \in DOMAIN testResults} :
                 \A i \in DOMAIN testResults : testResults[i]._id <= m)

NewTest(testResults, examName, maximumMarks, subject, teacherId) ==
    [_id |-> NewTestId(testResults), examName |-> examName,
     maximumMarks |-> maximumMarks, subject |-> subject,
     createdBy |-> teacherId, studentMarks |-> <<>>]

\* ------------------------------------- POST /admin/batches/:batchId/tests
CreateTest(teacherId, batchId, examName, maximumMarks, subject) ==
    LET in == [teacherId |-> teacherId, batchId |-> batchId]
        refuse(code) == /\ last' = Response("createTest", code, in, <<>>)
                        /\ UNCHANGED batches
    IN
    /\ IF teacherId = NoBearer THEN refuse(Unauthorized)
       ELSE IF ~isValid(batchId) THEN refuse(ServerError)
       ELSE IF batchId \notin DOMAIN batches THEN refuse(NotFound)
       ELSE IF ~ownsBatch(batches[batchId], teacherId) THEN refuse(Forbidden)
       ELSE IF Falsy(examName) \/ Falsy(maximumMarks) \/ Falsy(subject)
       THEN refuse(ServerError)
       ELSE /\ Len(batches[batchId].testResults) < MaxTests
            /\ LET newTest == NewTest(batches[batchId].testResults, examName,
                                      maximumMarks, subject, teacherId)
               IN /\ batches' = [batches EXCEPT
                                    ![batchId].testResults = Append(@, newTest)]
                  /\ last' = Response("createTest", Created, in, newTest)
    /\ BatchFrame

\* The body of the loop "for (const mark of studentMarks)" that pushes whatever
\* the request names, without looking for the student's row.
PushMark(stored, mark) ==
    Append(stored, [student |-> ObjectId(mark.student), marks |-> mark.marks,
                    remarks |-> IF Falsy(mark.remarks) THEN "" ELSE mark.remarks])

\* The body of the loop "for (const mark of studentMarks)": update the row
\* whose student prints as mark.student, else push a row.
UpsertMark(stored, mark) ==
    LET existingMarkIndex ==
            findIndex(stored, LAMBDA sm : toHexString(sm.student) = mark.student)
    IN IF existingMarkIndex >= 1
       THEN [stored EXCEPT
                ![existingMarkIndex].marks = mark.marks,
                ![existingMarkIndex].remarks =
                    IF Falsy(mark.remarks) THEN @ ELSE mark.remarks]
       ELSE PushMark(stored, mark)

RECURSIVE RecordMarks(_, _)
RecordMarks(stored, studentMarks) ==
    IF studentMarks = <<>> THEN stored
    ELSE RecordMarks(UpsertMark(stored, Head(studentMarks)), Tail(studentMarks))

\* A mark that batch.save() refuses: student does not cast to an ObjectId, or
\* the required marks is missing.
MarkInvalid(mark) == ~isValid(ObjectId(mark.student)) \/ Falsy(mark.marks)

\* A body without studentMarks; like an empty array it gives the loop nothing
\* to do, and the model writes both as the empty list.
NoMarks == <<>>

\* studentMarks && Array.isArray(studentMarks)
isArray(studentMarks) == studentMarks # NoMarks

\* batch.testResults.id(testId): the index of the test with that _id, 0 for null
testById(testResults, testId) ==
    IF isValid(ObjectId(testId))
    THEN findIndex(testResults, LAMBDA test : test._id = ObjectId(testId))
    ELSE 0

\* ------------------------------ PUT /admin/batches/:batchId/tests/:testId
UpdateTest(teacherId, batchId, testId, examName, maximumMarks, subject, studentMarks) ==
    LET in == [teacherId |-> teacherId, batchId |-> batchId, testId |-> testId,
               studentMarks |-> studentMarks]
        refuse(code) == /\ last' = Response("recordMarks", code, in, <<>>)
                        /\ UNCHANGED batches
    IN
    /\ IF teacherId = NoBearer THEN refuse(Unauthorized)
       ELSE IF ~isValid(batchId) THEN refuse(ServerError)
       ELSE IF batchId \notin DOMAIN batches THEN refuse(NotFound)
       ELSE IF ~ownsBatch(batches[batchId], teacherId) THEN refuse(Forbidden)
       ELSE LET t == testById(batches[batchId].testResults, testId)
                marks == IF isArray(studentMarks) THEN studentMarks ELSE NoMarks
            IN IF t = 0 THEN refuse(NotFound)
               ELSE IF \E i \in DOMAIN marks : MarkInvalid(marks[i])
               THEN refuse(ServerError)
               ELSE LET test == batches[batchId].testResults[t]
                    IN /\ Len(test.studentMarks) + Len(marks) <= MaxMarks
                       /\ batches' = [batches EXCEPT
                             ![batchId].testResults[t] =
                                 [test EXCEPT
                                    !.examName = IF Falsy(examName) THEN @ ELSE examName,
                                    !.maximumMarks = IF Falsy(maximumMarks) THEN @
                                                     ELSE maximumMarks,
                                    !.subject = IF Falsy(subject) THEN @ ELSE subject,
                                    !.studentMarks = RecordMarks(@, marks)]]
                       /\ last' = Response("recordMarks", OK, in,
                                           batches'[batchId].testResults[t])
    /\ BatchFrame

\* --------------------------- DELETE /admin/batches/:batchId/tests/:testId
DeleteTest(teacherId, batchId, testId) ==
    LET in == [teacherId |-> teacherId, batchId |-> batchId, testId |-> testId]
        refuse(code) == /\ last' = Response("deleteTest", code, in, <<>>)
                        /\ UNCHANGED batches
    IN
    /\ IF teacherId = NoBearer THEN refuse(Unauthorized)
       ELSE IF ~isValid(batchId) THEN refuse(ServerError)
       ELSE IF batchId \notin DOMAIN batches THEN refuse(NotFound)
       ELSE IF ~ownsBatch(batches[batchId], teacherId) THEN refuse(Forbidden)
       ELSE LET testIndex == findIndex(batches[batchId].testResults,
                                       LAMBDA test : toHexString(test._id) = testId)
            IN IF testIndex = 0 THEN refuse(NotFound)
               ELSE /\ batches' = [batches EXCEPT
                          ![batchId].testResults = splice1(@, testIndex)]
                    /\ last' = Response("deleteTest", OK, in, <<>>)
    /\ BatchFrame

\* -------------------------------------------------- test result behaviours
Mark(student, marks) == [student |-> student, marks |-> marks, remarks |-> Undefined]

\* studentMarks of a request: absent, one student, the same student twice in
\* lower-case and in upper-case hex, two students, a row with remarks and one
\* with empty remarks, and rows save() refuses.
MarkLists ==
    { NoMarks,
      <<Mark("1a", "5")>>,
      <<Mark("1a", "5"), Mark("1a", "7")>>,
      <<Mark("1a", "5"), Mark("2b", "7")>>,
      <<Mark("1A", "5")>>,
      <<Mark("1A", "5"), Mark("1A", "7")>>,
      <<[student |-> "1a", marks |-> "7", remarks |-> "good"]>>,
      <<[student |-> "1a", marks |-> "5", remarks |-> ""]>>,
      <<Mark("zz", "5")>>,
      <<Mark("2b", Undefined)>> }

TestRequest(teacherId, batchId, testId, examName, studentMarks) ==
    [teacherId |-> teacherId, batchId |-> batchId, testId |-> testId,
     examName |-> examName, studentMarks |-> studentMarks]

\* Calls that fail before the test is looked up: no header, a malformed batch
\* id, no such batch, a teacher who does not own the batch.
RefusedTestRequests ==
    { TestRequest(NoBearer, 1, "1a", "exam", <<Mark("1a", "5")>>),
      TestRequest("t1", MalformedId, "1a", "exam", <<Mark("1a", "5")>>),
      TestRequest("t1", 2, "1a", "exam", <<Mark("1a", "5")>>),
      TestRequest("t2", 1, "1a", "exam", <<Mark("1a", "5")>>) }

CreateTestRequests ==
    RefusedTestRequests
      \cup {TestRequest("t1", 1, "1a", e, NoMarks) : e \in {"exam", Undefined}}

RecordMarksRequests ==
    RefusedTestRequests
      \cup {TestRequest("t1", 1, id, Undefined, sm) : id \in {"1a", "2b"}, sm \in MarkLists}
      \cup {TestRequest("t1", 1, id, "final", NoMarks) : id \in {"1A", "zz"}}

DeleteTestRequests ==
    RefusedTestRequests
      \cup {TestRequest("t1", 1, id, Undefined, NoMarks) : id \in {"1a", "1A", "2b", "zz"}}

NextTests ==
    \/ CreateBatch(<<"a">>, "n1", "c1", "t1")
    \/ \E r \in CreateTestRequests :
          CreateTest(r.teacherId, r.batchId, r.examName, "50", "math")
    \/ \E r \in RecordMarksRequests :
          UpdateTest(r.teacherId, r.batchId, r.testId, r.examName, Undefined,
                     Undefined, r.studentMarks)
    \/ \E r \in DeleteTestRequests : DeleteTest(r.teacherId, r.batchId, r.testId)

SpecTests == Init /\ [][NextTests]_vars

\* ================================================== properties: test results
\* C20: after any sequence of test create, recordMarks and test delete calls
\* every test's studentMarks list holds at most one entry per student, also
\* when one recordMarks call names the same student more than once.
C20_OneMarkPerStudent ==
    \A b \in DOMAIN batches :
        \A t \in DOMAIN batches[b].testResults :
            LET sm == batches[b].testResults[t].studentMarks
            IN \A i, j \in DOMAIN sm : sm[i].student = sm[j].student => i = j

\* A recordMarks call whose student ids are all written as ObjectId#toString
\* writes them keeps a one-entry-per-student list one-entry-per-student.
CanonicalMarksKeepOnePerStudent ==
    (/\ last'.op = "recordMarks"
     /\ last'.status = OK
     /\ isArray(last'.in.studentMarks)
     /\ \A i \in DOMAIN last'.in.studentMarks :
           toHexString(ObjectId(last'.in.studentMarks[i].student))
             = last'.in.studentMarks[i].student
     /\ C20_OneMarkPerStudent)
    => C20_OneMarkPerStudent'

C20_CanonicalIdsOnePerStudent == [][CanonicalMarksKeepOnePerStudent]_vars

\* One call named student 1 twice in lower-case hex: one row, the later marks.
C20_CanonicalWitness ==
    /\ last.op = "recordMarks"
    /\ last.status = OK
    /\ last.in.studentMarks = <<Mark("1a", "5"), Mark("1a", "7")>>
    /\ last.out.studentMarks = <<[student |-> 1, marks |-> "7", remarks |-> ""]>>

\* ------------------------------------------------------------ recordMarks
RecordMarksAnswered == last'.op = "recordMarks" /\ last'.status = OK

\* Every student id of the request is spelled as ObjectId#toString spells it.
CanonicalStudents(marks) ==
    \A i \in DOMAIN marks : toHexString(ObjectId(marks[i].student)) = marks[i].student

\* The entry is the last one of the request for its student.
LastForStudent(marks, i) ==
    \A j \in DOMAIN marks : j > i => marks[j].student # marks[i].student

RowOf(rows, student) == {k \in DOMAIN rows : rows[k].student = student}

RecordMarksUpserts ==
    (/\ RecordMarksAnswered
     /\ CanonicalStudents(last'.in.studentMarks))
    => LET b == last'.in.batchId
           t == testById(batches[b].testResults, last'.in.testId)
           before == batches[b].testResults[t].studentMarks
           after == batches'[b].testResults[t].studentMarks
           marks == last'.in.studentMarks
           named == {ObjectId(marks[i].student) : i \in DOMAIN marks}
           given(row, mark) ==
               /\ row.marks = mark.marks
               /\ mark.remarks # Undefined => row.remarks = mark.remarks
       IN /\ \A i \in DOMAIN marks :
                LastForStudent(marks, i) =>
                  LET student == ObjectId(marks[i].student)
                  IN IF RowOf(before, student) # {}
                     THEN \A k \in RowOf(before, student) :
                             /\ after[k].student = student
                             /\ given(after[k], marks[i])
                     ELSE \E k \in DOMAIN after :
                             /\ k > Len(before)
                             /\ after[k].student = student
                             /\ given(after[k], marks[i])
          /\ \A k \in DOMAIN before :
                before[k].student \notin named => after[k] = before[k]
          /\ Len(after)
               = Len(before) + Cardinality({st \in named : RowOf(before, st) = {}})

\* C21: recordMarks sets marks and remarks of the student's existing row to
\* the supplied values, else appends a row with the supplied values, and
\* leaves the rows of students the call does not name unchanged.
C21_RecordMarksUpserts == [][RecordMarksUpserts]_vars

\* ============================================================ announcements
MaxAnnouncements == 3

\* new Date() and the _id of a pushed announcement: later than, and distinct
\* from, those of every announcement the batch holds.
NewStamp(announcements) ==
    IF announcements = <<>> THEN 1
    ELSE 1 + (CHOOSE m \in {announcements[i].createdAt : i \in DOMAIN announcements} :
                 \A i \in DOMAIN announcements : announcements[i].createdAt <= m)

\* Array.prototype.push
push(arr, x) == Append(arr, x)

\* Array.prototype.unshift
unshift(arr, x) == <<x>> \o arr

\* --------------------------- POST /admin/batches/:batchId/announcements
CreateAnnouncement(teacherId, batchId, title, content) ==
    LET in == [teacherId |-> teacherId, batchId |-> batchId, announcementId |-> "",
               title |-> title, content |-> content]
        refuse(code) == /\ last' = Response("createAnnouncement", code, in, <<>>)
                        /\ UNCHANGED batches
    IN
    /\ IF teacherId = NoBearer THEN refuse(Unauthorized)
       ELSE IF teacherId \notin adminUsers THEN refuse(Unauthorized)
       ELSE IF ~isValid(batchId) THEN refuse(ServerError)
       ELSE IF batchId \notin DOMAIN batches THEN refuse(NotFound)
       ELSE IF ~ownsBatch(batches[batchId], teacherId) THEN refuse(Forbidden)
       ELSE IF Falsy(title) \/ Falsy(content) THEN refuse(ServerError)
       ELSE /\ Len(batches[batchId].announcements) < MaxAnnouncements
            /\ LET stamp == NewStamp(batches[batchId].announcements)
                   announcement == [_id |-> stamp, title |-> title, content |-> content,
                                    teacher_id |-> teacherId, createdAt |-> stamp]
               IN /\ batches' = [batches EXCEPT
                                    ![batchId].announcements = unshift(@, announcement)]
                  /\ last' = Response("createAnnouncement", Created, in,
                                      batches'[batchId].announcements[1])
    /\ BatchFrame

\* ------------ PUT /admin/batches/:batchId/announcements/:announcementId
UpdateAnnouncement(teacherId, batchId, announcementId, title, content) ==
    LET in == [teacherId |-> teacherId, batchId |-> batchId,
               announcementId |-> announcementId, title |-> title, content |-> content]
        refuse(code) == /\ last' = Response("updateAnnouncement", code, in, <<>>)
                        /\ UNCHANGED batches
    IN
    /\ IF teacherId = NoBearer THEN refuse(Unauthorized)
       ELSE IF teacherId \notin adminUsers THEN refuse(Unauthorized)
       ELSE IF ~isValid(batchId) THEN refuse(ServerError)
       ELSE IF batchId \notin DOMAIN batches THEN refuse(NotFound)
       ELSE IF ~ownsBatch(batches[batchId], teacherId) THEN refuse(Forbidden)
       ELSE LET announcementIndex ==
                    findIndex(batches[batchId].announcements,
                              LAMBDA a : toHexString(a._id) = announcementId)
            IN IF announcementIndex = 0 THEN refuse(NotFound)
               ELSE /\ batches' = [batches EXCEPT
                          ![batchId].announcements[announcementIndex].title =
                              IF Falsy(title) THEN @ ELSE title,
                          ![batchId].announcements[announcementIndex].content =
                              IF Falsy(content) THEN @ ELSE content]
                    /\ last' = Response("updateAnnouncement", OK, in,
                                        batches'[batchId].announcements[announcementIndex])
    /\ BatchFrame

\* --------- DELETE /admin/batches/:batchId/announcements/:announcementId
DeleteAnnouncement(teacherId, batchId, announcementId) ==
    LET in == [teacherId |-> teacherId, batchId |-> batchId,
               announcementId |-> announcementId, title |-> Undefined,
               content |-> Undefined]
        refuse(code) == /\ last' = Response("deleteAnnouncement", code, in, <<>>)
                        /\ UNCHANGED batches
    IN
    /\ IF teacherId = NoBearer THEN refuse(Unauthorized)
       ELSE IF teacherId \notin adminUsers THEN refuse(Unauthorized)
       ELSE IF ~isValid(batchId) THEN refuse(ServerError)
       ELSE IF batchId \notin DOMAIN batches THEN refuse(NotFound)
       ELSE IF ~ownsBatch(batches[batchId], teacherId) THEN refuse(Forbidden)
       ELSE LET announcementIndex ==
                    findIndex(batches[batchId].announcements,
                              LAMBDA a : toHexString(a._id) = announcementId)
            IN IF announcementIndex = 0 THEN refuse(NotFound)
               ELSE /\ batches' = [batches EXCEPT
                          ![batchId].announcements = splice1(@, announcementIndex)]
                    /\ last' = Response("deleteAnnouncement", OK, in, <<>>)
    /\ BatchFrame

\* ------------------------------------------------ announcement behaviours
AnnouncementRequest(teacherId, batchId, announcementId, title, content) ==
    [teacherId |-> teacherId, batchId |-> batchId, announcementId |-> announcementId,
     title |-> title, content |-> content]

\* Calls that fail before the announcement is looked up.
RefusedAnnouncementRequests ==
    { AnnouncementRequest(NoBearer, 1, "1a", "t", "c"),
      AnnouncementRequest("tx", 1, "1a", "t", "c"),
      AnnouncementRequest("t1", MalformedId, "1a", "t", "c"),
      AnnouncementRequest("t1", 2, "1a", "t", "c"),
      AnnouncementRequest("t2", 1, "1a", "t", "c") }

CreateAnnouncementRequests ==
    RefusedAnnouncementRequests
      \cup {AnnouncementRequest("t1", 1, "", t, "c") : t \in {"t", Undefined}}

AnnouncementIdInputs == {"1a", "2b", "3c", "zz"}

UpdateAnnouncementRequests ==
    RefusedAnnouncementRequests
      \cup {AnnouncementRequest("t1", 1, id, f.title, f.content) :
               id \in AnnouncementIdInputs,
               f \in {[title |-> "t2", content |-> Undefined],
                      [title |-> "", content |-> "c2"]}}

DeleteAnnouncementRequests ==
    RefusedAnnouncementRequests
      \cup {AnnouncementRequest("t1", 1, id, Undefined, Undefined) :
               id \in AnnouncementIdInputs}

NextAnnouncements ==
    \/ CreateBatch(<<"a">>, "n1", "c1", "t1")
    \/ \E r \in CreateAnnouncementRequests :
          CreateAnnouncement(r.teacherId, r.batchId, r.title, r.content)
    \/ \E r \in UpdateAnnouncementRequests :
          UpdateAnnouncement(r.teacherId, r.batchId, r.announcementId, r.title, r.content)
    \/ \E r \in DeleteAnnouncementRequests :
          DeleteAnnouncement(r.teacherId, r.batchId, r.announcementId)

SpecAnnouncements == Init /\ [][NextAnnouncements]_vars

\* ================================================ properties: announcements
AnnouncementIds(announcements) ==
    [i \in DOMAIN announcements |-> announcements[i]._id]

MostRecentFirst(announcements) ==
    \A i, j \in DOMAIN announcements :
        i < j => announcements[i].createdAt > announcements[j].createdAt

AnnouncementOrderKept ==
    /\ \A b \in DOMAIN batches' : MostRecentFirst(batches'[b].announcements)
    /\ (last'.op = "createAnnouncement" /\ last'.status = Created)
         => LET b == last'.in.batchId
            IN /\ batches'[b].announcements[1] = last'.out
               /\ Tail(batches'[b].announcements) = batches[b].announcements
               /\ \A i \in DOMAIN batches[b].announcements :
                     batches[b].announcements[i].createdAt < last'.out.createdAt
    /\ (last'.op = "updateAnnouncement" /\ last'.status = OK)
         => LET b == last'.in.batchId
            IN AnnouncementIds(batches'[b].announcements)
                 = AnnouncementIds(batches[b].announcements)
    /\ (last'.op = "deleteAnnouncement" /\ last'.status = OK)
         => LET b == last'.in.batchId
                old == batches[b].announcements
            IN \E k \in DOMAIN old :
                  /\ toHexString(old[k]._id) = last'.in.announcementId
                  /\ batches'[b].announcements = splice1(old, k)

\* C22: a batch's announcements are ordered most-recent-created first: create
\* puts the new announcement at index 0, update and delete keep the relative
\* order of the remaining announcements.
C22_AnnouncementsMostRecentFirst == [][AnnouncementOrderKept]_vars

\* Three were created, the first was updated and the middle one deleted.
C22_Witness ==
    /\ last.op = "deleteAnnouncement"
    /\ last.status = OK
    /\ last.in.announcementId = "2b"
    /\ AnnouncementIds(batches[1].announcements) = <<3, 1>>
    /\ batches[1].announcements[2].title = "t2"

\* ================================================================= accounts
\* z.string().email(): the strings of the model that are email addresses
IsEmail(email) == email \in {"s1@x", "s2@x", "s3@x", "p1@x", "p2@x", "p9@x"}

\* ------------------------------------------------------ POST /user/register
RegisterStudent(email) ==
    LET in == [email |-> email, studentEmail |-> Undefined]
        existingUser == {u \in DOMAIN users : users[u].email = email}
    IN
    /\ IF ~IsEmail(email)
       THEN /\ last' = Response("registerStudent", BadRequest, in, <<>>)
            /\ UNCHANGED users
       ELSE IF existingUser # {}
       THEN /\ last' = Response("registerStudent", Conflict, in, <<>>)
            /\ UNCHANGED users
       ELSE /\ Len(users) < MaxUsers
            /\ users' = Append(users, Account("student", email, Undefined))
            /\ last' = Response("registerStudent", Created, in, Len(users) + 1)
    /\ UNCHANGED <<adminUsers, batches, nextBatchId, attendance, nextAttId, pending>>

\* req.user as authMiddleware sets it from a verified token: the account's id
authMiddlewareUser(authHeader) == [set |-> TRUE, userId |-> authHeader]

\* req.user in the handler of PUT /profile: the route is registered without
\* authMiddleware and no other middleware assigns req.user.
reqUser(authHeader) == [set |-> FALSE, userId |-> NoAuthHeader]

\* -------------------------------------------------------- PUT /user/profile
UpdateProfile(authHeader, email) ==
    LET in == [authHeader |-> authHeader, email |-> email]
        user == reqUser(authHeader)
        answer(code) == last' = Response("updateProfile", code, in, <<>>)
    IN
    /\ IF email # Undefined /\ ~IsEmail(email)
       THEN answer(BadRequest) /\ UNCHANGED users
       ELSE IF ~user.set
       THEN answer(BadRequest) /\ UNCHANGED users
       ELSE IF ~UserExists(user.userId)
       THEN answer(NotFound) /\ UNCHANGED users
       ELSE IF Falsy(email)
       THEN answer(OK) /\ UNCHANGED users
       ELSE IF \E o \in DOMAIN users : users[o].email = email /\ o # user.userId
       THEN answer(Conflict) /\ UNCHANGED users
       ELSE /\ users' = [users EXCEPT ![user.userId].email = email]
            /\ answer(OK)
    /\ UNCHANGED <<adminUsers, batches, nextBatchId, attendance, nextAttId, pending>>

\* -------------------------------------------------------- account behaviours
StudentEmailInputs == {"s1@x", "s3@x", "bad"}

ParentEmailInputs == {"p1@x", "p2@x", "s2@x"}

ProfileEmailInputs == {"p9@x", "s1@x", Undefined, "bad"}

NextAccounts ==
    \/ \E email \in StudentEmailInputs : RegisterStudent(email)
    \/ \E email \in ParentEmailInputs, studentEmail \in {"s1@x", "s2@x", "s3@x", "p1@x"} :
          RegisterParent(email, studentEmail)
    \/ \E authHeader \in {1, 3, 4, UnknownUser}, email \in ProfileEmailInputs :
          UpdateProfile(authHeader, email)

SpecAccounts == Init /\ [][NextAccounts]_vars

\* ===================================================== properties: accounts
ParentEmails == {users[u].email : u \in {p \in DOMAIN users : users[p].role = "parent"}}

LinkedStudents(email) ==
    {u \in DOMAIN users : users[u].role = "student" /\ users[u].parentEmail = email}

\* C23: after any sequence of student registration, parent registration and
\* profile update calls, every student whose parentEmail is set has a
\* parentEmail equal to the email of an existing account with role parent.
C23_ParentEmailNamesParent ==
    \A u \in DOMAIN users :
        (users[u].role = "student" /\ users[u].parentEmail # Undefined)
            => users[u].parentEmail \in ParentEmails

\* A second parent registered for student 1, then the first parent asked for
\* a new email address.
C23_Witness ==
    /\ last.op = "updateProfile"
    /\ last.in = [authHeader |-> 3, email |-> "p9@x"]
    /\ Len(users) = 4
    /\ users[4].role = "parent"
    /\ users[1].parentEmail = users[4].email
    /\ users[3].email = "p1@x"

\* C24: every parent account is linked to exactly one student and every
\* student has at most one linked parent email, also after a second parent
\* registers naming a student who already has a linked parent.
C24_ParentLinksOneStudent ==
    /\ \A u \in DOMAIN users :
          users[u].role = "parent"
            => Cardinality(LinkedStudents(users[u].email)) = 1
    /\ \A u \in DOMAIN users :
          users[u].role = "student"
            => Cardinality({e \in ParentEmails : users[u].parentEmail = e}) <= 1

\* ===================================================== concurrent enrolment
\* batch.save() after batch.students.push(...) on a list that holds no element
\* twice: the update adds only the elements the stored list lacks.
saveAddToSet(stored, pushed) == stored \o filter(pushed, LAMBDA id : ~includes(stored, id))

\* batch.save() after batch.students.push(...pushed): mongoose sends the
\* pushed elements as a $push, which the store appends to the list it holds
\* at that moment.
save(stored, pushed) == stored \o pushed

InFlight(op, in, batchId, pushed) ==
    [op |-> op, in |-> in, batchId |-> batchId, pushed |-> pushed]

\* POST /admin/batches/:batchId/students up to "batch.students.push": the
\* batch and the students are read and the new ids computed from that read.
AddStudentsRead(batchId, studentIds) ==
    LET in == [batchId |-> batchId, studentIds |-> studentIds]
        items == studentIds.items
        refuse(code) == /\ last' = Response("addStudents", code, in, <<>>)
                        /\ UNCHANGED pending
    IN
    /\ IF ~studentIds.array \/ Len(items) = 0 THEN refuse(BadRequest)
       ELSE IF batchId \notin DOMAIN batches THEN refuse(NotFound)
       ELSE IF ~AllStudentsFound(items) THEN refuse(BadRequest)
       ELSE /\ Len(pending) < MaxInFlight
            /\ pending' = Append(pending,
                  InFlight("addStudents", in, batchId,
                           NewStudentIds(batches[batchId].students, items)))
            /\ UNCHANGED last
    /\ UNCHANGED <<adminUsers, users, batches, nextBatchId, attendance, nextAttId>>

\* POST /user/join-batch up to "batch.students.push(student._id)"
JoinBatchRead(authHeader, batch_code) ==
    LET in == [token |-> authHeader, batch_code |-> batch_code]
        found == BatchesWithCode(toUpperCase(batch_code))
        refuse(code, out) == /\ last' = Response("joinBatch", code, in, out)
                             /\ UNCHANGED pending
    IN
    /\ IF batch_code = <<>> \/ authHeader = NoAuthHeader THEN refuse(BadRequest, <<>>)
       ELSE IF authHeader = InvalidToken THEN refuse(Unauthorized, <<>>)
       ELSE IF ~IsStudent(authHeader) THEN refuse(Forbidden, <<>>)
       ELSE IF found = {} THEN refuse(NotFound, <<>>)
       ELSE LET b == CHOOSE x \in found : TRUE IN
            IF AlreadyEnrolled(batches[b].students, authHeader)
            THEN refuse(Conflict, b)
            ELSE /\ Len(pending) < MaxInFlight
                 /\ pending' = Append(pending,
                                      InFlight("joinBatch", in, b, <<authHeader>>))
                 /\ UNCHANGED last
    /\ UNCHANGED <<adminUsers, users, batches, nextBatchId, attendance, nextAttId>>

\* "await batch.save()" and the answer of either handler
EnrolSave(i) ==
    /\ i \in DOMAIN pending
    /\ LET call == pending[i] IN
       /\ batches' = [batches EXCEPT
                         ![call.batchId].students = save(@, call.pushed)]
       /\ last' = Response(call.op, OK, call.in,
                           IF call.op = "joinBatch" THEN call.batchId
                           ELSE batches'[call.batchId].students)
    /\ pending' = splice1(pending, i)
    /\ UNCHANGED <<adminUsers, users, nextBatchId, attendance, nextAttId>>

NextEnrolRace ==
    \/ CreateBatch(<<"a">>, "n1", "c1", "t1")
    \/ \E b \in 1..2, items \in {<<1>>, <<2>>, <<1, 2>>, <<3>>} :
          AddStudentsRead(b, [array |-> TRUE, items |-> items])
    \/ \E tok \in {1, 2, 3, InvalidToken} : JoinBatchRead(tok, <<"a">>)
    \/ \E i \in 1..MaxInFlight : EnrolSave(i)

SpecEnrolRace == Init /\ [][NextEnrolRace]_vars

\* =========================================== properties: concurrent enrolment
\* A step that completes one of the in-flight add-student calls.
EnrolSaved(i) ==
    /\ i \in DOMAIN pending
    /\ pending' = splice1(pending, i)
    /\ last'.in = pending[i].in
    /\ last'.status = OK

\* The list the call would have left had it run whole on the stored list.
SerialResult(stored, call) ==
    IF call.op = "joinBatch"
    THEN IF AlreadyEnrolled(stored, call.in.token) THEN stored
         ELSE Append(stored, call.in.token)
    ELSE stored \o NewStudentIds(stored, call.in.studentIds.items)

SaveAppendsWhatWasRead ==
    \A i \in 1..MaxInFlight :
        EnrolSaved(i) =>
            LET call == pending[i]
                before == batches[call.batchId].students
                after == batches'[call.batchId].students
            IN /\ after = before \o call.pushed
               /\ (\E k \in DOMAIN call.pushed : includes(before, call.pushed[k]))
                    => /\ ~NoDuplicates(after)
                       /\ after # SerialResult(before, call)

\* C25: add-student reads the batch, mutates students and saves in separate
\* steps, so two concurrent add-student calls on one batch can interleave to a
\* students list that neither serial order produces: the save appends what
\* the call computed from its own read, and a student whom another call
\* enrolled in between is enrolled twice.
C25_ConcurrentAddsRace == [][SaveAppendsWhatWasRead]_vars

\* Two add-student calls for student 1, the later one a join, both read the
\* batch before either saved; a bulk add and a join of student 1 run one after
\* the other, in either order, leave <<1>>.
C25_Witness ==
    /\ pending = <<>>
    /\ last.op = "joinBatch"
    /\ last.status = OK
    /\ last.in.token = 1
    /\ batches[1].students = <<1, 1>>
    /\ LET add == InFlight("addStudents",
                           [batchId |-> 1,
                            studentIds |-> [array |-> TRUE, items |-> <<1>>]],
                           1, <<1>>)
           join == InFlight("joinBatch", last.in, 1, <<1>>)
       IN /\ batches[1].students # SerialResult(SerialResult(<<>>, add), join)
          /\ batches[1].students # SerialResult(SerialResult(<<>>, join), add)

\* ========================================================= batch lifecycle
\* A delete of an attendance document that never looks the batch up.
DeleteAttendanceNoBatchLookup(teacherId, batchId, attendanceId) ==
    LET in == [teacherId |-> teacherId, batchId |-> batchId,
               attendanceId |-> attendanceId]
    IN
    /\ IF attendanceId \notin DOMAIN attendance
       THEN /\ last' = Response("deleteAttendance", NotFound, in, <<>>)
            /\ UNCHANGED attendance
       ELSE /\ attendance' = Remove(attendance, attendanceId)
            /\ last' = Response("deleteAttendance", OK, in, <<>>)
    /\ UNCHANGED <<adminUsers, users, batches, nextBatchId, nextAttId, pending>>

\* ---------------- DELETE /admin/batches/:batchId/attendance/:attendanceId
DeleteAttendance(teacherId, batchId, attendanceId) ==
    LET in == [teacherId |-> teacherId, batchId |-> batchId,
               attendanceId |-> attendanceId]
        refuse(code) == /\ last' = Response("deleteAttendance", code, in, <<>>)
                        /\ UNCHANGED attendance
    IN
    /\ IF teacherId \notin adminUsers THEN refuse(Unauthorized)
       ELSE IF batchId \notin DOMAIN batches THEN refuse(NotFound)
       ELSE IF ~ownsBatch(batches[batchId], teacherId) THEN refuse(Forbidden)
       ELSE IF attendanceId \notin DOMAIN attendance THEN refuse(NotFound)
       ELSE IF ~BelongsToBatch(attendance[attendanceId], batchId) THEN refuse(BadRequest)
       ELSE /\ attendance' = Remove(attendance, attendanceId)
            /\ last' = Response("deleteAttendance", OK, in, <<>>)
    /\ UNCHANGED <<adminUsers, users, batches, nextBatchId, nextAttId, pending>>

\* Every kind of call that writes a batch or an attendance document, on
\* batches that are created, filled and deleted.
NextLifecycle ==
    \/ CreateBatch(<<"a">>, "n1", "c1", "t1")
    \/ CreateBatch(<<"b">>, "n1", "c1", "t2")
    \/ \E t \in TeacherIds : UpdateBatch(t, 1, "n2", Undefined)
    \/ \E t \in TeacherIds, b \in 1..2 : DeleteBatch(t, b)
    \/ JoinBatch(1, <<"a">>)
    \/ RemoveStudent("t1", 1, 1)
    \/ CreateAnnouncement("t1", 1, "t", "c")
    \/ UpsertEntry("t1", 1, "monday", "3", "physics", Undefined, Undefined, Undefined)
    \/ CreateTest("t1", 1, "exam", "50", "math")
    \/ UpsertFee(1, 1, "500", "online", "paid", Undefined)
    \/ \E b \in 1..2 : MarkAttendance("t1", b, "2024-01-01", <<Entry(1, "present")>>)
    \/ \E t \in TeacherIds, b \in 1..2 :
          UpdateAttendance(t, b, 1, [array |-> TRUE, items |-> <<Entry(1, "absent")>>])
    \/ \E t \in TeacherIds, b \in 1..2 : DeleteAttendance(t, b, 1)

SpecLifecycle == Init /\ [][NextLifecycle]_vars

\* ============================================== properties: batch lifecycle
AttendanceOf(batchId) == {a \in DOMAIN attendance : attendance[a].batch_id = batchId}

DeleteRemovesDocumentOnly ==
    (last'.op = "deleteBatch" /\ last'.status = OK)
    => LET b == last'.in.batchId
       IN /\ b \in DOMAIN batches
          /\ b \notin DOMAIN batches'
          /\ batches' = Remove(batches, b)
          /\ attendance' = attendance

\* C26: deleting a batch removes the batch document with its embedded
\* announcements, timetable, test results and fee payments, and leaves every
\* AttendanceRecord, those of the deleted batch included, unchanged.
C26_DeleteLeavesAttendance == [][DeleteRemovesDocumentOnly]_vars

\* A batch with an attendance document was deleted; the document is still there.
C26_Witness ==
    /\ last.op = "deleteBatch"
    /\ last.status = OK
    /\ last.in.batchId \notin DOMAIN batches
    /\ AttendanceOf(last.in.batchId) # {}

\* The batch was created and is no longer stored.
DeletedBatch(batchId) ==
    /\ batchId \in 1..(nextBatchId - 1)
    /\ batchId \notin DOMAIN batches

AttendanceWrites == {"updateAttendance", "deleteAttendance"}

OrphanedAttendanceFrozen ==
    /\ (last'.op \in AttendanceWrites /\ DeletedBatch(last'.in.batchId))
         => /\ last'.status # OK
            /\ attendance' = attendance
            /\ last'.in.teacherId \in adminUsers => last'.status = NotFound
    /\ \A a \in DOMAIN attendance :
          DeletedBatch(attendance[a].batch_id)
            => /\ a \in DOMAIN attendance'
               /\ attendance'[a] = attendance[a]
    /\ \A b \in 1..MaxBatches : DeletedBatch(b) => DeletedBatch(b)'

\* C28: once a batch has been deleted, every later attendance update or
\* attendance delete naming it fails with NotFound, and the AttendanceRecords
\* of the deleted batch stay in the store unchanged from then on.
C28_OrphanedAttendanceFrozen == [][OrphanedAttendanceFrozen]_vars

\* A delete of the attendance document of a deleted batch was refused.
C28_Witness ==
    /\ last.op = "deleteAttendance"
    /\ last.status = NotFound
    /\ DeletedBatch(last.in.batchId)
    /\ last.in.attendanceId \in AttendanceOf(last.in.batchId)

MarkCreatesForExistingBatch ==
    (last'.op = "markAttendance" /\ last'.status = Created)
    => last'.in.batchId \in DOMAIN batches

\* C29: mark-attendance creates an AttendanceRecord only for a batchId that
\* resolves to an existing batch at the moment the record is created.
C29_MarkOnlyForExistingBatch == [][MarkCreatesForExistingBatch]_vars

TeacherFixed ==
    /\ \A b \in DOMAIN batches \cap DOMAIN batches' :
          batches'[b].teacher_id = batches[b].teacher_id
    /\ \A b \in DOMAIN batches' \ DOMAIN batches :
          /\ b = nextBatchId
          /\ last'.op = "createBatch"
          /\ batches'[b].teacher_id = last'.in.teacher_id

\* C30: a batch's teacher_id is fixed at creation: no batch update, membership
\* change, announcement, timetable, test, fee or attendance call changes the
\* teacher_id of an existing batch.
C30_TeacherFixed == [][TeacherFixed]_vars

\* The owner renamed a batch that holds a student, an announcement, a
\* timetable entry, a test and a fee payment; it is still the owner's.
C30_Witness ==
    /\ last.op = "updateBatch"
    /\ last.status = OK
    /\ 1 \in DOMAIN batches
    /\ batches[1].name = "n2"
    /\ batches[1].teacher_id = "t1"
    /\ batches[1].students # <<>>
    /\ batches[1].announcements # <<>>
    /\ batches[1].timetable["monday"] # <<>>
    /\ batches[1].testResults # <<>>
    /\ batches[1].feesPayments # <<>>
    /\ AttendanceOf(1) # {}

=============================================================================
